---- MODULE Spec2Model ----
(***************************************************************************)
(* Task-Card Synchronization Engine of trello-claude-sync.                 *)
(*                                                                         *)
(* Strings are sequences of UTF-16 code units, each code unit written as a *)
(* one-element TLA+ string.  The regular expressions of the source have no *)
(* u flag, so they match code unit by code unit; the glyphs are therefore  *)
(* modelled as the code units JavaScript sees:                             *)
(*   U+2705            (check mark)          one unit   "U2705"            *)
(*   U+2699 U+FE0F     (gear + variation)    two units  "U2699","UFE0F"    *)
(*   U+1F4CB           (clipboard)           two units  "UD83D","UDCCB"    *)
(***************************************************************************)
EXTENDS Integers, Sequences, FiniteSets, TLC

----------------------------------------------------------------------------
(* Bounds of the model *)

\* longest card body, in lines, the reconciler specification draws
MaxBodyLines == 3
\* longest task batch the reconciler specification draws
MaxTasks == 2

----------------------------------------------------------------------------
(* Code units and string primitives (JavaScript String methods) *)

SP == " "
LF == "LF"

\* what String.prototype.trim strips and what \s matches
WhiteSpace == {SP, LF}
\* what . does not match
LineTerminators == {LF}
\* the class [-*•]
Bullets == {"-", "*", "BULLET"}
\* the class [✅⚙️📋] as the code units it contains
IconUnits == {"U2705", "U2699", "UFE0F", "UD83D", "UDCCB"}

RECURSIVE trimStart(_)
trimStart(s) ==
  IF s # <<>> /\ Head(s) \in WhiteSpace THEN trimStart(Tail(s)) ELSE s

RECURSIVE trimEnd(_)
trimEnd(s) ==
  IF s # <<>> /\ s[Len(s)] \in WhiteSpace
    THEN trimEnd(SubSeq(s, 1, Len(s) - 1))
    ELSE s

trim(s) == trimEnd(trimStart(s))

startsWith(s, p) == Len(s) >= Len(p) /\ SubSeq(s, 1, Len(p)) = p

\* s.split(sep) for a one-unit separator: always at least one element
\* (the pieces before position i are in done, the piece being read in cur)
RECURSIVE splitFrom(_, _, _, _, _)
splitFrom(s, sep, i, cur, done) ==
  IF i > Len(s) THEN Append(done, cur)
  ELSE IF s[i] = sep THEN splitFrom(s, sep, i + 1, <<>>, Append(done, cur))
  ELSE splitFrom(s, sep, i + 1, Append(cur, s[i]), done)

splitOn(s, sep) == splitFrom(s, sep, 1, <<>>, <<>>)

\* s.split('\n')
split(s) == splitOn(s, LF)

\* lines.join('\n'): the empty array joins to the empty string
RECURSIVE join(_)
join(ls) ==
  IF ls = <<>> THEN <<>>
  ELSE IF Len(ls) = 1 THEN ls[1]
  ELSE ls[1] \o <<LF>> \o join(Tail(ls))

\* all code units of s at positions a..b are white space (\s* or \s+ run)
AllWS(s, a, b) == \A k \in a..b : s[k] \in WhiteSpace

\* sequences over S of length at most n
SeqUpTo(S, n) == UNION {[1..k -> S] : k \in 0..n}

----------------------------------------------------------------------------
(* Description Reconciler *)

\* /^[-*•]\s+[✅⚙️📋]?\s*(.+)/ : i ends \s+, g is the optional glyph unit,
\* j ends \s*, and .+ needs one more unit that is no line terminator
AutoBulletRe(t) ==
  /\ Len(t) >= 1
  /\ t[1] \in Bullets
  /\ \E i \in 2..Len(t) :
       /\ AllWS(t, 2, i)
       /\ \E g \in {0, 1} :
            /\ (g = 1) => (i + 1 <= Len(t) /\ t[i + 1] \in IconUnits)
            /\ \E j \in (i + g)..Len(t) :
                 /\ AllWS(t, i + g + 1, j)
                 /\ j + 1 <= Len(t)
                 /\ t[j + 1] \notin LineTerminators

\* /^[-*•]\s+(.+)/
SlashBulletRe(t) ==
  /\ Len(t) >= 1
  /\ t[1] \in Bullets
  /\ \E i \in 2..Len(t) :
       /\ AllWS(t, 2, i)
       /\ i + 1 <= Len(t)
       /\ t[i + 1] \notin LineTerminators

\* /^\[[ x]\]\s+(.+)/
CheckboxRe(t) ==
  /\ Len(t) >= 3
  /\ t[1] = "["
  /\ t[2] \in {SP, "x"}
  /\ t[3] = "]"
  /\ \E i \in 4..Len(t) :
       /\ AllWS(t, 4, i)
       /\ i + 1 <= Len(t)
       /\ t[i + 1] \notin LineTerminators

\* the task-line test of SimpleAutoSyncService.generateUpdatedDescription
AutoTaskLine(trimmed) == AutoBulletRe(trimmed) \/ CheckboxRe(trimmed)

\* the task-line test of generateUpdatedDescription in slash-commands.ts
SlashTaskLine(trimmed) == SlashBulletRe(trimmed) \/ CheckboxRe(trimmed)

IsTaskLine(impl, trimmed) ==
  IF impl = "auto" THEN AutoTaskLine(trimmed) ELSE SlashTaskLine(trimmed)

\* the line that closes a task section
EndsTaskSection(trimmed) ==
  \/ trimmed = <<>>
  \/ startsWith(trimmed, <<"#">>)
  \/ startsWith(trimmed, <<"-", "-", "-">>)

getStatusIcon(status) ==
  CASE status = "completed" -> <<"U2705">>
    [] status = "in_progress" -> <<"U2699", "UFE0F">>
    [] OTHER -> <<"UD83D", "UDCCB">>

\* content.replace(/^[✅⚙️📋]\s*/, ''): one leading code unit of the class and
\* the white space after it
cleanContent(content) ==
  IF content # <<>> /\ Head(content) \in IconUnits
    THEN trimStart(Tail(content))
    ELSE content

\* `- ${statusIcon} ${cleanContent}`
AutoRender(task) ==
  <<"-", SP>> \o getStatusIcon(task.status) \o <<SP>> \o cleanContent(task.content)

\* `- ${statusIcon} ${task.content}`
SlashRender(task) ==
  <<"-", SP>> \o getStatusIcon(task.status) \o <<SP>> \o task.content

RenderTask(impl, task) ==
  IF impl = "auto" THEN AutoRender(task) ELSE SlashRender(task)

\* for (const task of tasks) updatedLines.push(...)
RenderTasks(impl, tasks) == [k \in 1..Len(tasks) |-> RenderTask(impl, tasks[k])]

\* (the tasks pushed in place of the closing line)
SectionEndLinesTasksOnly(impl, tasks, line) == RenderTasks(impl, tasks)

\* what the closing line of a task section pushes: the tasks, then the line
SectionEndLines(impl, tasks, line) == RenderTasks(impl, tasks) \o <<line>>

\* the for loop over the lines; st = [updatedLines, inTaskSection, taskSectionFound]
RECURSIVE ScanLines(_, _, _, _)
ScanLines(impl, lines, tasks, st) ==
  IF lines = <<>> THEN st
  ELSE
    LET line == Head(lines)
        trimmed == trim(line)
    IN  IF IsTaskLine(impl, trimmed)
          THEN ScanLines(impl, Tail(lines), tasks,
                 [st EXCEPT !.inTaskSection = TRUE,
                            !.taskSectionFound =
                               IF ~st.inTaskSection THEN TRUE ELSE @])
        ELSE IF st.inTaskSection /\ EndsTaskSection(trimmed)
          THEN ScanLines(impl, Tail(lines), tasks,
                 [st EXCEPT !.inTaskSection = FALSE,
                            !.updatedLines =
                               @ \o SectionEndLines(impl, tasks, line)])
        ELSE ScanLines(impl, Tail(lines), tasks,
                 [st EXCEPT !.updatedLines = Append(@, line)])

\* (the section appended without the blank line before its heading)
AppendSectionNoBlank(impl, st, tasks) ==
  IF ~st.taskSectionFound /\ Len(tasks) > 0
    THEN st.updatedLines
           \o << <<"#", "#", SP, "Current Tasks">> >>
           \o RenderTasks(impl, tasks)
    ELSE st.updatedLines

\* "If no task section was found, add tasks at the end"
AppendSection(impl, st, tasks) ==
  IF ~st.taskSectionFound /\ Len(tasks) > 0
    THEN st.updatedLines
           \o << <<>>, <<"#", "#", SP, "Current Tasks">> >>
           \o RenderTasks(impl, tasks)
    ELSE st.updatedLines

generateUpdatedDescription(impl, originalDescription, tasks) ==
  LET st == ScanLines(impl, split(originalDescription), tasks,
                      [updatedLines |-> <<>>,
                       inTaskSection |-> FALSE,
                       taskSectionFound |-> FALSE])
  IN  join(AppendSection(impl, st, tasks))

----------------------------------------------------------------------------
(* Inputs of the reconciler specification *)

ReconLines ==
  { <<>>,
    <<"a">>,
    <<"#", "h">>,
    <<"-", "-", "-">>,
    <<"-", SP, "a">>,
    <<SP, "*", SP, "U2705", SP, "b">>,
    <<"[", "x", "]", SP, "c">> }

ReconTasks ==
  { [content |-> <<"a">>, status |-> "pending", activeForm |-> <<"A">>],
    [content |-> <<"a">>, status |-> "completed", activeForm |-> <<"A">>],
    [content |-> <<"U2699", "UFE0F", SP, "b">>, status |-> "in_progress",
     activeForm |-> <<"B">>] }

ReconBodies == {join(ls) : ls \in SeqUpTo(ReconLines, MaxBodyLines) \ {<<>>}}

ReconBatches == SeqUpTo(ReconTasks, MaxTasks)

Impls == {"auto", "slash"}

----------------------------------------------------------------------------
(* State *)

VARIABLES
  \* reconciler specification: implementation, inputs, pass counter, outputs
  rImpl, rBody, rTasks, rPass, rOut1, rOut2,
  \* .trello-session.json: currentCardId, currentCardName, linkedTasks
  session,
  \* the remote board: card id -> card
  cards,
  \* roles for which the board has a list whose name autoDiscoverLists matches
  boardLists,
  \* the list id the configuration gives each role (TRELLO_LIST_* variables),
  \* NoList for a variable that is not set
  envListIds,
  \* TodoTrelloSync.sessionTaskCards: task content -> card id, NoCard when the
  \* map has no entry
  sessionTaskCards,
  \* names of the labels the board has
  labels,
  \* outcome the running process returned, NoResult between processes
  result,
  \* remote calls the running process issued, in order, the failed one included
  calls,
  \* what the running process was invoked with, NoRequest between processes
  request,
  \* the session file and the board as the running process found them
  before,
  \* concurrent invocations writing the session file: what each is doing to
  \* it and the record it loaded
  writers,
  \* the records written to the session file, in the order of the writes
  writes,
  \* matcher specification: the checklist items, the task content, whether
  \* the matcher has run, and the index of the item it returned (0 for null)
  mItems, mContent, mDone, mMatch

rvars == <<rImpl, rBody, rTasks, rPass, rOut1, rOut2>>

ovars == <<session, cards, boardLists, envListIds, sessionTaskCards, labels,
           result, calls, request, before>>

wvars == <<writers, writes>>

mvars == <<mItems, mContent, mDone, mMatch>>

vars == <<rImpl, rBody, rTasks, rPass, rOut1, rOut2,
          session, cards, boardLists, envListIds, sessionTaskCards, labels,
          result, calls, request, before, writers, writes,
          mItems, mContent, mDone, mMatch>>

----------------------------------------------------------------------------
(* Session store (utils/session.ts) *)

\* an absent currentCardId / currentCardName
NoCard == "none"

\* the record JSON.parse gives for "{}" (or for a missing file): no card, no
\* name, no linkedTasks.  An absent linkedTasks is the empty sequence: every
\* reader takes it through `tasks || []` or never reads it.
EmptySession ==
  [currentCardId |-> NoCard, currentCardName |-> NoCard, linkedTasks |-> <<>>]

\* (a clear that empties the tasks and keeps the card)
clearSessionTasksOnly(s) == [s EXCEPT !.linkedTasks = <<>>]

clearSession(s) == EmptySession

setActiveCard(s, cardId, cardName, tasks) ==
  [s EXCEPT !.currentCardId = cardId,
            !.currentCardName = cardName,
            !.linkedTasks = tasks]

getActiveCard(s) ==
  [cardId |-> s.currentCardId, cardName |-> s.currentCardName,
   tasks |-> s.linkedTasks]

\* (the batch added to the tasks the session holds)
updateSessionTasksAdded(s, tasks) ==
  IF s.currentCardId # NoCard THEN [s EXCEPT !.linkedTasks = @ \o tasks] ELSE s

updateSessionTasks(s, tasks) ==
  IF s.currentCardId # NoCard THEN [s EXCEPT !.linkedTasks = tasks] ELSE s

\* (a save that keeps the file's value of every field the record leaves unset)
saveSessionMerged(state) ==
  [f \in DOMAIN state |->
     IF state[f] = EmptySession[f] THEN session[f] ELSE state[f]]

\* saveSession(state): the record the file holds once writeFileSync returns
saveSession(state) == state

\* no invocation is writing the session file
NoWriters == <<>>

WritersIdle == writers = NoWriters /\ writes = <<>>

\* the matcher has been given nothing
MatcherIdle ==
  /\ mItems = <<>>
  /\ mContent = <<>>
  /\ mDone = FALSE
  /\ mMatch = 0

----------------------------------------------------------------------------
(* Board client (TrelloMCPClient) *)

\* the card the session can be bound to
CardIds == {"c1"}

\* a further card of the board: it only ever shows up behind c1 in the result of
\* a search
OtherCard == "c0"

Roles == {"todo", "inProgress", "review", "done"}

\* a list is identified with the role its name matches; "other" matches none
ListIds == Roles \cup {"other"}

\* the Error a failed request throws: `Trello API error: ...` of that request
ErrMsg(op) == <<"Trello API error", op>>

NoError == <<>>

\* one remote call: the client method, the card it addresses, a tag of its
\* argument and the numbers its text embeds
CallN(op, card, arg, nums) == [op |-> op, card |-> card, arg |-> arg, nums |-> nums]

Call(op, card, arg) == CallN(op, card, arg, <<>>)

\* connect(): GET /members/me, whose failure is rethrown, then
\* autoDiscoverLists(), whose failure is logged and leaves listIds empty
connect(fail) ==
  IF "members" \in fail
    THEN [ok |-> FALSE, error |-> ErrMsg("members"),
          calls |-> <<Call("members", NoCard, "")>>, listIds |-> {}]
    ELSE [ok |-> TRUE, error |-> NoError,
          calls |-> <<Call("members", NoCard, ""),
                      Call("getLists", NoCard, "")>>,
          listIds |-> IF "getLists" \in fail THEN {} ELSE boardLists]

\* getListId(listType): this.listIds[listType] || null
NoList == "null"

getListId(listIds, role) == IF role \in listIds THEN role ELSE NoList

\* (an update that the board does not keep)
clientUpdateCardDropped(cs, cardId, description) == cs

\* (an update that also files the card under done)
clientUpdateCardMoved(cs, cardId, description) ==
  [cs EXCEPT ![cardId].desc = description, ![cardId].idList = "done"]

\* updateCard(cardId, undefined, description): `if (description)` sends the
\* description only when it is not the empty string
clientUpdateCard(cs, cardId, description) ==
  IF description # <<>> THEN [cs EXCEPT ![cardId].desc = description] ELSE cs

clientMoveCard(cs, cardId, listId) == [cs EXCEPT ![cardId].idList = listId]

----------------------------------------------------------------------------
(* Outcomes *)

\* outcome of SimpleAutoSyncService.syncTasks; counts is FALSE when the
\* returned object has no completed / total properties
SyncOutcome(success, message, error, counts, completed, total) ==
  [op |-> "syncTasks", success |-> success, message |-> message,
   error |-> error, counts |-> counts, completed |-> completed,
   total |-> total]

\* outcome of a slash command: the kind of string it returned
CommandOutcome(op, success, message, error) ==
  [op |-> op, success |-> success, message |-> message, error |-> error,
   counts |-> FALSE, completed |-> 0, total |-> 0]

CountStatus(tasks, status) ==
  Cardinality({k \in 1..Len(tasks) : tasks[k].status = status})

----------------------------------------------------------------------------
(* SimpleAutoSyncService.syncTasks, description-only service *)

\* what a handler leaves behind: the session file, the board, the remote
\* calls it issued and the outcome it returned
Effect(s, cs, cl, res) == [session |-> s, cards |-> cs, calls |-> cl, result |-> res]

\* (the session written only once the remote calls are through)
sessionLeftForLater(s, tasks) == s

\* "Update local session first"
sessionBeforeRemote(s, tasks) == updateSessionTasks(s, tasks)

\* the text of the progress comment: completed/total, and the in-progress
\* count when it is positive
\* (the in-progress count written whatever it is)
ProgressCommentWithCount(cardId, tasks) ==
  CallN("addComment", cardId, "Progress Update",
        <<CountStatus(tasks, "completed"), Len(tasks),
          CountStatus(tasks, "in_progress")>>)

ProgressComment(cardId, tasks) ==
  LET completed == CountStatus(tasks, "completed")
      inProgress == CountStatus(tasks, "in_progress")
  IN  CallN("addComment", cardId, "Progress Update",
            IF inProgress > 0
              THEN <<completed, Len(tasks), inProgress>>
              ELSE <<completed, Len(tasks)>>)

\* (a catch block that logs the error and reports the sync as done)
syncFailureLogged(s, cs, cl, err) ==
  Effect(s, cs, cl, SyncOutcome(TRUE, "Synced tasks to Trello", NoError, FALSE, 0, 0))

\* the catch block: { success: false, error, message: `Auto-sync failed: ...` }
syncFailed(s, cs, cl, err) ==
  Effect(s, cs, cl, SyncOutcome(FALSE, "Auto-sync failed", err, FALSE, 0, 0))

\* (the client connected before the session is looked at)
noActiveCardConnected(s, cs) ==
  Effect(s, cs, <<Call("members", NoCard, ""), Call("getLists", NoCard, "")>>,
         SyncOutcome(TRUE, "No active card", NoError, FALSE, 0, 0))

\* `if (!cardId) return { success: true, message: 'No active card' }`
noActiveCard(s, cs) ==
  Effect(s, cs, <<>>, SyncOutcome(TRUE, "No active card", NoError, FALSE, 0, 0))

syncTasks(tasks, fail) ==
  LET cardId == getActiveCard(session).cardId
  IN
  IF cardId = NoCard
    THEN noActiveCard(session, cards)
    ELSE
      LET s1 == sessionBeforeRemote(session, tasks)
          conn == connect(fail)
          c2 == Append(conn.calls, Call("getCard", cardId, ""))
          updatedDescription ==
            generateUpdatedDescription("auto", cards[cardId].desc, tasks)
          c3 == Append(c2, Call("updateCard", cardId, "desc"))
          cards1 == clientUpdateCard(cards, cardId, updatedDescription)
          c4 == Append(c3, ProgressComment(cardId, tasks))
      IN  IF ~conn.ok THEN syncFailed(s1, cards, conn.calls, conn.error)
          ELSE IF "getCard" \in fail
            THEN syncFailed(s1, cards, c2, ErrMsg("getCard"))
          ELSE IF "updateCard" \in fail
            THEN syncFailed(s1, cards, c3, ErrMsg("updateCard"))
          ELSE IF "addComment" \in fail
            THEN syncFailed(s1, cards1, c4, ErrMsg("addComment"))
          ELSE Effect(s1, cards1, c4,
                      SyncOutcome(TRUE, "Synced tasks to Trello", NoError, TRUE,
                                  CountStatus(tasks, "completed"), Len(tasks)))

----------------------------------------------------------------------------
(* completeCard (slash-commands.ts) *)

\* (a failure that also clears the session)
commandFailedClearing(op, s, cs, cl, message, err) ==
  Effect(clearSession(s), cs, cl, CommandOutcome(op, FALSE, message, err))

\* (a catch that returns the fixed text without the error's message)
commandFailedSilently(op, s, cs, cl, message, err) ==
  Effect(s, cs, cl, CommandOutcome(op, FALSE, message, NoError))

commandFailed(op, s, cs, cl, message, err) ==
  Effect(s, cs, cl, CommandOutcome(op, FALSE, message, err))

\* (only the tracked tasks removed)
sessionTasksDropped(s) == [s EXCEPT !.linkedTasks = <<>>]

\* (only the card binding removed)
sessionCardUnset(s) ==
  [s EXCEPT !.currentCardId = NoCard, !.currentCardName = NoCard]

\* what completeCard does to the session once the card is moved and commented
sessionAfterComplete(s) == clearSession(s)

completeCard(fail) ==
  LET cardId == getActiveCard(session).cardId
  IN
  IF cardId = NoCard
    THEN commandFailed("complete", session, cards, <<>>,
                       "No active Trello card in session", NoError)
    ELSE
      LET conn == connect(fail)
          doneListId == getListId(conn.listIds, "done")
          c2 == Append(conn.calls, Call("moveCard", cardId, doneListId))
          cards1 == clientMoveCard(cards, cardId, doneListId)
          c3 == Append(c2, Call("addComment", cardId, "Task Completed"))
      IN  IF ~conn.ok
            THEN commandFailed("complete", session, cards, conn.calls,
                               "Failed to complete card", conn.error)
          ELSE IF doneListId = NoList
            THEN commandFailed("complete", session, cards, conn.calls,
                               "Could not find Done list on board", NoError)
          ELSE IF "moveCard" \in fail
            THEN commandFailed("complete", session, cards, c2,
                               "Failed to complete card", ErrMsg("moveCard"))
          ELSE IF "addComment" \in fail
            THEN commandFailed("complete", session, cards1, c3,
                               "Failed to complete card", ErrMsg("addComment"))
          ELSE Effect(sessionAfterComplete(session), cards1, c3,
                      CommandOutcome("complete", TRUE, "Task Completed!", NoError))

----------------------------------------------------------------------------
(* pickupCard (slash-commands.ts) *)

\* s.includes(p)
includes(s, p) ==
  \E i \in 1..(Len(s) - Len(p) + 1) : SubSeq(s, i, i + Len(p) - 1) = p

\* the class [-*•\[\] x]
TaskPrefixUnits == Bullets \cup {"[", "]", SP, "x"}

RECURSIVE dropWhileIn(_, _)
dropWhileIn(s, class) ==
  IF s # <<>> /\ Head(s) \in class THEN dropWhileIn(Tail(s), class) ELSE s

\* trimmed.replace(/^[-*•\[\] x]+\s*/, '')
stripTaskPrefix(trimmed) ==
  IF trimmed # <<>> /\ Head(trimmed) \in TaskPrefixUnits
    THEN trimStart(dropWhileIn(trimmed, TaskPrefixUnits))
    ELSE trimmed

parsedTask(trimmed) ==
  LET taskText == stripTaskPrefix(trimmed)
      isCompleted == includes(trimmed, <<"[", "x", "]">>)
                       \/ includes(trimmed, <<"U2705">>)
  IN  [content |-> taskText,
       status |-> IF isCompleted THEN "completed" ELSE "pending",
       activeForm |-> <<"Working on ">> \o taskText]

RECURSIVE parseLines(_)
parseLines(lines) ==
  IF lines = <<>> THEN <<>>
  ELSE LET trimmed == trim(Head(lines))
       IN  IF SlashTaskLine(trimmed)
             THEN <<parsedTask(trimmed)>> \o parseLines(Tail(lines))
             ELSE parseLines(Tail(lines))

parseTasksFromDescription(description) == parseLines(split(description))

\* what searchCards may return: no card, the card, the card and a further one
SearchResults ==
  {<<>>} \cup UNION {{<<id>>, <<id, OtherCard>>} : id \in {c \in CardIds : cards[c].exists}}

\* the card is moved and commented when an inProgress list is known and the
\* card is not in it
pickupMoves(inProgressListId, idList) ==
  inProgressListId # NoList /\ idList # inProgressListId

\* the part of pickupCard after the card was found
pickupFound(cardId, cl, listIds, fail) ==
  LET inProgressListId == getListId(listIds, "inProgress")
      moves == pickupMoves(inProgressListId, cards[cardId].idList)
      c2 == Append(cl, Call("moveCard", cardId, inProgressListId))
      cards1 == clientMoveCard(cards, cardId, inProgressListId)
      c3 == Append(c2, Call("addComment", cardId, "Card picked up"))
      tasks == parseTasksFromDescription(cards[cardId].desc)
      s1 == setActiveCard(session, cardId, cards[cardId].name, tasks)
      picked == CommandOutcome("pickup", TRUE, "Picked up Trello Card", NoError)
  IN  IF moves
        THEN IF "moveCard" \in fail
               THEN commandFailed("pickup", session, cards, c2,
                                  "Failed to pickup card", ErrMsg("moveCard"))
             ELSE IF "addComment" \in fail
               THEN commandFailed("pickup", session, cards1, c3,
                                  "Failed to pickup card", ErrMsg("addComment"))
             ELSE Effect(s1, cards1, c3, picked)
        \* not moved: getCurrentListName reads the lists, a failure gives 'Unknown'
        ELSE Effect(s1, cards, Append(cl, Call("getLists", NoCard, "")), picked)

\* a pickupCard that takes the first of several search results
pickupCardFirstResult(id, found, fail) ==
  LET idLike == id # NoCard
      conn == connect(fail)
      cGet == Append(conn.calls, Call("getCard", id, ""))
      getOk == idLike /\ cards[id].exists /\ "getCard" \notin fail
      cSearch == Append(IF idLike THEN cGet ELSE conn.calls,
                        CallN("searchCards", NoCard, "",
                              IF "searchCards" \in fail THEN <<>>
                              ELSE <<Len(found)>>))
  IN  IF ~conn.ok
        THEN commandFailed("pickup", session, cards, conn.calls,
                           "Failed to pickup card", conn.error)
      ELSE IF getOk
        THEN pickupFound(id, cGet, conn.listIds, fail)
      ELSE IF "searchCards" \in fail
        THEN commandFailed("pickup", session, cards, cSearch,
                           "Failed to pickup card", ErrMsg("searchCards"))
      ELSE IF Len(found) = 0
        THEN commandFailed("pickup", session, cards, cSearch,
                           "No card found matching", NoError)
      ELSE pickupFound(found[1], cSearch, conn.listIds, fail)

\* id: the card id a 24-character identifier is tried as, NoCard for any other
\* identifier; found: what searchCards returns if it is called
pickupCard(id, found, fail) ==
  LET idLike == id # NoCard
      conn == connect(fail)
      cGet == Append(conn.calls, Call("getCard", id, ""))
      getOk == idLike /\ cards[id].exists /\ "getCard" \notin fail
      \* the search call carries the number of cards it returned
      cSearch == Append(IF idLike THEN cGet ELSE conn.calls,
                        CallN("searchCards", NoCard, "",
                              IF "searchCards" \in fail THEN <<>>
                              ELSE <<Len(found)>>))
  IN  IF ~conn.ok
        THEN commandFailed("pickup", session, cards, conn.calls,
                           "Failed to pickup card", conn.error)
      ELSE IF getOk
        THEN pickupFound(id, cGet, conn.listIds, fail)
      ELSE IF "searchCards" \in fail
        THEN commandFailed("pickup", session, cards, cSearch,
                           "Failed to pickup card", ErrMsg("searchCards"))
      ELSE IF ~idLike /\ Len(found) = 0
        THEN commandFailed("pickup", session, cards, cSearch,
                           "No card found matching", NoError)
      ELSE IF ~idLike /\ Len(found) > 1
        THEN commandFailed("pickup", session, cards, cSearch,
                           "Multiple cards found", NoError)
      ELSE IF Len(found) = 0
        THEN commandFailed("pickup", session, cards, cSearch,
                           "Card not found", NoError)
      ELSE pickupFound(found[1], cSearch, conn.listIds, fail)

----------------------------------------------------------------------------
(* showStatus (slash-commands.ts) *)

\* getCurrentListName catches a failing getLists and answers 'Unknown'
showStatus(fail) ==
  LET cardId == getActiveCard(session).cardId
      conn == connect(fail)
      cGet == Append(conn.calls, Call("getCard", cardId, ""))
      cAll == Append(cGet, Call("getLists", NoCard, ""))
  IN  IF cardId = NoCard
        THEN Effect(session, cards, <<>>,
                    CommandOutcome("status", TRUE, "Active Card: None", NoError))
      ELSE IF ~conn.ok
        THEN commandFailed("status", session, cards, conn.calls,
                           "Failed to get status", conn.error)
      ELSE IF "getCard" \in fail \/ ~cards[cardId].exists
        THEN commandFailed("status", session, cards, cGet,
                           "Failed to get status", ErrMsg("getCard"))
      ELSE Effect(session, cards, cAll,
                  CommandOutcome("status", TRUE, "Trello Session Status", NoError))

----------------------------------------------------------------------------
(* createCardFromPlan (slash-commands.ts) *)

UpperCase ==
  <<"A", "B", "C", "D", "E", "F", "G", "H", "I", "J", "K", "L", "M",
    "N", "O", "P", "Q", "R", "S", "T", "U", "V", "W", "X", "Y", "Z">>

LowerCase ==
  <<"a", "b", "c", "d", "e", "f", "g", "h", "i", "j", "k", "l", "m",
    "n", "o", "p", "q", "r", "s", "t", "u", "v", "w", "x", "y", "z">>

Digits == {"0", "1", "2", "3", "4", "5", "6", "7", "8", "9"}

\* s.toLowerCase()
lowerOf ==
  [c \in {UpperCase[u] : u \in 1..Len(UpperCase)} |->
     LowerCase[CHOOSE u \in 1..Len(UpperCase) : UpperCase[u] = c]]

toLowerCase(s) ==
  [k \in 1..Len(s) |-> IF s[k] \in DOMAIN lowerOf THEN lowerOf[s[k]] ELSE s[k]]

\* /^[0-9]+\.\s+(.+)/
NumberedRe(t) ==
  \E d \in 1..Len(t) :
    /\ \A k \in 1..d : t[k] \in Digits
    /\ d + 1 <= Len(t)
    /\ t[d + 1] = "."
    /\ \E i \in (d + 2)..Len(t) :
         /\ AllWS(t, d + 2, i)
         /\ i + 1 <= Len(t)
         /\ t[i + 1] \notin LineTerminators

\* the class [-*•\[\] x0-9\.]
PlanPrefixUnits == TaskPrefixUnits \cup Digits \cup {"."}

\* trimmed.replace(/^[-*•\[\] x0-9\.]+\s*/, '').replace(/^[✅⚙️📋]\s*/, '')
stripPlanPrefix(trimmed) ==
  cleanContent(
    IF trimmed # <<>> /\ Head(trimmed) \in PlanPrefixUnits
      THEN trimStart(dropWhileIn(trimmed, PlanPrefixUnits))
      ELSE trimmed)

planTask(trimmed) ==
  LET taskText == stripPlanPrefix(trimmed)
      isCompleted == includes(trimmed, <<"[", "x", "]">>)
                       \/ includes(trimmed, <<"U2705">>)
      isInProgress ==
        \/ includes(trimmed, <<"U2699", "UFE0F">>)
        \/ includes(toLowerCase(trimmed),
                    <<"i", "n", SP, "p", "r", "o", "g", "r", "e", "s", "s">>)
  IN  [content |-> taskText,
       status |-> IF isCompleted THEN "completed"
                  ELSE IF isInProgress THEN "in_progress" ELSE "pending",
       activeForm |-> <<"Working on ">> \o taskText]

RECURSIVE planLines(_)
planLines(lines) ==
  IF lines = <<>> THEN <<>>
  ELSE LET trimmed == trim(Head(lines))
       IN  IF SlashTaskLine(trimmed) \/ NumberedRe(trimmed)
             THEN <<planTask(trimmed)>> \o planLines(Tail(lines))
             ELSE planLines(Tail(lines))

extractTasksFromPlan(planText) == planLines(split(planText))

DefaultTitle == <<"Development Task">>

\* trimmed.replace(/^#+\s*/, '')
stripHeader(trimmed) ==
  IF trimmed # <<>> /\ Head(trimmed) = "#"
    THEN trimStart(dropWhileIn(trimmed, {"#"}))
    ELSE trimmed

RECURSIVE titleLines(_)
titleLines(lines) ==
  IF lines = <<>> THEN DefaultTitle
  ELSE LET trimmed == trim(Head(lines))
       IN  IF /\ Len(trimmed) > 5
              /\ Len(trimmed) < 100
              /\ ~startsWith(trimmed, <<"-">>)
              /\ ~startsWith(trimmed, <<"*">>)
             THEN stripHeader(trimmed)
             ELSE titleLines(Tail(lines))

\* extractTitleFromPlan(planText) || 'Development Task'
extractTitleFromPlan(planText) ==
  LET t == IF planText = <<>> THEN DefaultTitle ELSE titleLines(split(planText))
  IN  IF t = <<>> THEN DefaultTitle ELSE t

\* the fixed lines are single units: none is blank, a task line, a header or
\* a --- rule except where written out
formatPlanAsDescription(planText) ==
  IF planText = <<>>
    THEN join(<< <<"#", "#", SP, "Development Task">>,
                 <<>>,
                 <<"*", "Created from Claude Code TodoWrite plan*">>,
                 <<>>,
                 <<"#", "#", "#", SP, "Tasks">>,
                 <<"-", SP, "Task planning in progress...">>,
                 <<>>,
                 <<"-", "-", "-">>,
                 <<"*", "Use /trello-pickup to resume work on this card*">> >>)
    ELSE join(<< <<"#", "#", SP, "Development Plan">>, <<>> >>)
           \o <<LF>> \o planText \o <<LF>>
           \o join(<< <<>>,
                      <<"-", "-", "-">>,
                      <<"*", "Created from Claude Code TodoWrite plan*">>,
                      <<"*", "Use /trello-pickup <now> to resume work on this card*">> >>)

labelMappings ==
  <<
    [name |-> "Bug",
     keywords |->
       { <<"b", "u", "g">>,
         <<"f", "i", "x">>,
         <<"e", "r", "r", "o", "r">>,
         <<"i", "s", "s", "u", "e">> }],
    [name |-> "Feature",
     keywords |->
       { <<"f", "e", "a", "t", "u", "r", "e">>,
         <<"e", "n", "h", "a", "n", "c", "e", "m", "e", "n", "t">>,
         <<"n", "e", "w">> }],
    [name |-> "Refactoring",
     keywords |->
       { <<"r", "e", "f", "a", "c", "t", "o", "r">>,
         <<"c", "l", "e", "a", "n", "u", "p">>,
         <<"o", "p", "t", "i", "m", "i", "z", "a", "t", "i", "o", "n">> }],
    [name |-> "Testing",
     keywords |->
       { <<"t", "e", "s", "t">>,
         <<"t", "e", "s", "t", "i", "n", "g">>,
         <<"s", "p", "e", "c">> }],
    [name |-> "Documentation",
     keywords |->
       { <<"d", "o", "c">>,
         <<"d", "o", "c", "u", "m", "e", "n", "t", "a", "t", "i", "o", "n">>,
         <<"r", "e", "a", "d", "m", "e">> }],
    [name |-> "API",
     keywords |->
       { <<"a", "p", "i">>,
         <<"e", "n", "d", "p", "o", "i", "n", "t">>,
         <<"s", "e", "r", "v", "i", "c", "e">> }],
    [name |-> "Frontend",
     keywords |->
       { <<"u", "i">>,
         <<"f", "r", "o", "n", "t", "e", "n", "d">>,
         <<"c", "o", "m", "p", "o", "n", "e", "n", "t">> }],
    [name |-> "Backend",
     keywords |->
       { <<"b", "a", "c", "k", "e", "n", "d">>,
         <<"d", "a", "t", "a", "b", "a", "s", "e">>,
         <<"s", "e", "r", "v", "e", "r">> }]
  >>

\* the labels addRelevantLabels asks for: a keyword of the mapping occurs in
\* the lower-cased title or plan
labelsToAdd(title, content) ==
  LET hay == <<toLowerCase(title), toLowerCase(content)>>
  IN  SelectSeq(labelMappings,
                LAMBDA m : \E kw \in m.keywords :
                             includes(hay[1], kw) \/ includes(hay[2], kw))

\* ensureLabel for each wanted mapping, in order: read the board labels, create
\* the label when the board has none of that name; a failure is logged and the
\* label left out.  acc = [calls, labels (of the board), got (label names)]
RECURSIVE ensureLabels(_, _, _)
ensureLabels(wanted, acc, fail) ==
  IF wanted = <<>> THEN acc
  ELSE
    LET name == Head(wanted).name
        cRead == Append(acc.calls, Call("getBoardLabels", NoCard, ""))
        cMake == Append(cRead, Call("createLabel", NoCard, name))
    IN  ensureLabels(Tail(wanted),
          IF "getBoardLabels" \in fail
            THEN [acc EXCEPT !.calls = cRead]
          ELSE IF name \in acc.labels
            THEN [acc EXCEPT !.calls = cRead, !.got = Append(@, name)]
          ELSE IF "createLabel" \in fail
            THEN [acc EXCEPT !.calls = cMake]
          ELSE [acc EXCEPT !.calls = cMake,
                           !.labels = @ \cup {name},
                           !.got = Append(@, name)],
          fail)

\* addLabelToCard for each label obtained; a failure is logged and skipped
attachLabels(cs, cardId, got, fail) ==
  IF "addLabelToCard" \in fail
    THEN cs
    ELSE [cs EXCEPT ![cardId].labels = @ \cup {got[k] : k \in 1..Len(got)}]

attachCalls(cardId, got) ==
  [k \in 1..Len(got) |-> Call("addLabelToCard", cardId, got[k])]

\* RaveHubTrelloIntegration.initialize -> TodoTrelloSync.initialize: connect,
\* autoDiscoverLists once more, healthCheck (getBoard; false on failure)
initialize(fail) ==
  LET conn == connect(fail)
      c2 == conn.calls \o <<Call("getLists", NoCard, ""),
                            Call("getBoard", NoCard, "")>>
  IN  IF ~conn.ok THEN [ok |-> FALSE, error |-> conn.error, calls |-> conn.calls]
      ELSE IF "getBoard" \in fail
        THEN [ok |-> FALSE, error |-> <<"Failed to access Trello board">>,
              calls |-> c2]
      ELSE [ok |-> TRUE, error |-> NoError, calls |-> c2]

\* createCard(name, description): listId || this.listIds.todo || config.listIds?.todo
createTargetList(listIds) ==
  IF "todo" \in listIds THEN "todo"
  ELSE envListIds["todo"]

\* createChecklist(cardId, name, itemNames)
seededChecklist(name, tasks) ==
  [name |-> name,
   checkItems |-> [k \in 1..Len(tasks) |->
                     [name |-> tasks[k].content, state |-> "incomplete"]]]

clientCreateChecklist(cs, cardId, name, tasks) ==
  [cs EXCEPT ![cardId].checklists = Append(@, seededChecklist(name, tasks))]

CreateEffect(s, cs, lb, cl, res) ==
  [session |-> s, cards |-> cs, labels |-> lb, calls |-> cl, result |-> res]

createFailed(cs, cl, err) ==
  CreateEffect(session, cs, labels, cl,
               CommandOutcome("create", FALSE, "Failed to create Trello card", err))

\* the session createCardFromPlan stores once the card, its checklist and
\* its labels are in place
\* a binding that forgets the tasks extracted from the plan
sessionAfterCreateNoTasks(s, cardId, cardName, tasks) ==
  setActiveCard(s, cardId, cardName, <<>>)

sessionAfterCreate(s, cardId, cardName, tasks) ==
  setActiveCard(s, cardId, cardName, tasks)

\* newId: the id the board gives the new card
createCardFromPlan(planText, newId, fail) ==
  LET init == initialize(fail)
      conn == connect(fail)
      c1 == init.calls \o conn.calls
      cardTitle == extractTitleFromPlan(planText)
      cardDescription == formatPlanAsDescription(planText)
      targetListId == createTargetList(conn.listIds)
      c2 == Append(c1, Call("createCard", newId, targetListId))
      cards1 == [cards EXCEPT ![newId] =
                   [exists |-> TRUE, name |-> cardTitle,
                    desc |-> cardDescription, idList |-> targetListId,
                    checklists |-> <<>>, labels |-> {}]]
      tasks == extractTasksFromPlan(planText)
      c3 == IF Len(tasks) > 0
              THEN Append(c2, Call("createChecklist", newId, "Development Tasks"))
              ELSE c2
      cards2 == IF Len(tasks) > 0
                  THEN clientCreateChecklist(cards1, newId, "Development Tasks", tasks)
                  ELSE cards1
      lab == ensureLabels(labelsToAdd(cardTitle, planText),
                          [calls |-> c3, labels |-> labels, got |-> <<>>], fail)
      c4 == lab.calls \o attachCalls(newId, lab.got)
      cards3 == attachLabels(cards2, newId, lab.got, fail)
  IN  IF ~init.ok THEN createFailed(cards, init.calls, init.error)
      ELSE IF ~conn.ok THEN createFailed(cards, c1, conn.error)
      ELSE IF targetListId = NoList
        THEN createFailed(cards, c1, <<"No target list ID specified">>)
      ELSE IF "createCard" \in fail
        THEN createFailed(cards, c2, ErrMsg("createCard"))
      ELSE IF Len(tasks) > 0 /\ "createChecklist" \in fail
        THEN createFailed(cards1, c3, ErrMsg("createChecklist"))
      ELSE CreateEffect(sessionAfterCreate(session, newId, cardTitle, tasks),
                        cards3, lab.labels, c4,
                        CommandOutcome("create", TRUE, "Trello Card Created", NoError))

----------------------------------------------------------------------------
(* Checklist reconciliation of the checklist-aware SimpleAutoSyncService *)

\* .replace(/\s+/g, ' ')
RECURSIVE collapseWS(_)
collapseWS(s) ==
  IF s = <<>> THEN <<>>
  ELSE IF Head(s) \in WhiteSpace
    THEN <<SP>> \o collapseWS(trimStart(s))
    ELSE <<Head(s)>> \o collapseWS(Tail(s))

\* .replace(/[^a-z0-9\s]/g, '')
keepAlnumWS(s) ==
  SelectSeq(s, LAMBDA c :
    \/ c \in {LowerCase[k] : k \in 1..Len(LowerCase)}
    \/ c \in Digits
    \/ c \in WhiteSpace)

cleanTaskContent(content) ==
  collapseWS(keepAlnumWS(toLowerCase(trim(cleanContent(content)))))

\* index of the first element of items satisfying Test, 0 when there is none
findIndex(items, Test(_)) ==
  IF \E k \in 1..Len(items) : Test(items[k])
    THEN CHOOSE k \in 1..Len(items) :
           Test(items[k]) /\ \A j \in 1..(k - 1) : ~Test(items[j])
    ELSE 0

todoKeywords(cleanTodoContent) ==
  SelectSeq(splitOn(cleanTodoContent, SP), LAMBDA w : Len(w) > 3)

\* (the keyword tier tried before the two others)
findMatchingChecklistItemKeywordFirst(checkItems, todoTaskContent) ==
  LET cleanTodoContent == cleanTaskContent(todoTaskContent)
      exact == findIndex(checkItems,
                 LAMBDA item : cleanTaskContent(item.name) = cleanTodoContent)
      fuzzy == findIndex(checkItems,
                 LAMBDA item :
                   \/ includes(cleanTaskContent(item.name), cleanTodoContent)
                   \/ includes(cleanTodoContent, cleanTaskContent(item.name)))
      kws == todoKeywords(cleanTodoContent)
      keyword == findIndex(checkItems,
                   LAMBDA item :
                     \E k \in 1..Len(kws) :
                       includes(cleanTaskContent(item.name), kws[k]))
  IN  IF keyword # 0 THEN keyword
      ELSE IF exact # 0 THEN exact
      ELSE fuzzy

\* index in checkItems of the item findMatchingChecklistItem returns, 0 for null
findMatchingChecklistItem(checkItems, todoTaskContent) ==
  LET cleanTodoContent == cleanTaskContent(todoTaskContent)
      exact == findIndex(checkItems,
                 LAMBDA item : cleanTaskContent(item.name) = cleanTodoContent)
      fuzzy == findIndex(checkItems,
                 LAMBDA item :
                   \/ includes(cleanTaskContent(item.name), cleanTodoContent)
                   \/ includes(cleanTodoContent, cleanTaskContent(item.name)))
      kws == todoKeywords(cleanTodoContent)
      keyword == findIndex(checkItems,
                   LAMBDA item :
                     \E k \in 1..Len(kws) :
                       includes(cleanTaskContent(item.name), kws[k]))
  IN  IF exact # 0 THEN exact
      ELSE IF fuzzy # 0 THEN fuzzy
      ELSE keyword

\* the matcher of syncTasksToChecklists in slash-commands.ts
findIncludedItem(checkItems, content) ==
  findIndex(checkItems,
    LAMBDA item : includes(item.name, content) \/ includes(content, item.name))

\* (the first item taken for the match of every task)
matchItemFirstItem(impl, checkItems, content) ==
  IF Len(checkItems) > 0 THEN 1 ELSE 0

matchItem(impl, checkItems, content) ==
  IF impl = "auto"
    THEN findMatchingChecklistItem(checkItems, content)
    ELSE findIncludedItem(checkItems, content)

ItemState(shouldBeCompleted) ==
  IF shouldBeCompleted THEN "complete" ELSE "incomplete"

\* updateChecklistItem(..., itemId, completed): item ii of checklist ci
clientUpdateChecklistItem(cs, cardId, ci, ii, completed) ==
  [cs EXCEPT ![cardId].checklists[ci].checkItems[ii].state = ItemState(completed)]

\* the (checklist, task) pairs in the order the nested loops visit them
LoopPairs(nChecklists, nTasks) ==
  [n \in 1..(nChecklists * nTasks) |->
     [ci |-> ((n - 1) \div nTasks) + 1, ti |-> ((n - 1) % nTasks) + 1]]

\* the nested loops over checklists and tasks.  snapshot is what
\* getCardChecklists returned; acc = [cards, calls, thrown]; an update that
\* fails throws out of the loops
RECURSIVE checklistLoop(_, _, _, _, _, _, _)
checklistLoop(impl, pairs, snapshot, tasks, cardId, acc, fail) ==
  IF pairs = <<>> \/ acc.thrown THEN acc
  ELSE
    LET ci == Head(pairs).ci
        task == tasks[Head(pairs).ti]
        checkItems == snapshot[ci].checkItems
        ii == matchItem(impl, checkItems, task.content)
        shouldBeCompleted == task.status = "completed"
        isCurrentlyCompleted == checkItems[ii].state = "complete"
        cUpd == Append(acc.calls,
                       CallN("updateChecklistItem", cardId,
                             ItemState(shouldBeCompleted), <<ci, ii>>))
    IN  checklistLoop(impl, Tail(pairs), snapshot, tasks, cardId,
          IF ii = 0 \/ shouldBeCompleted = isCurrentlyCompleted
            THEN acc
          ELSE IF "updateChecklistItem" \in fail
            THEN [acc EXCEPT !.calls = cUpd, !.thrown = TRUE]
          ELSE [acc EXCEPT !.calls = cUpd,
                           !.cards = clientUpdateChecklistItem(
                                       @, cardId, ci, ii, shouldBeCompleted)],
          fail)

\* (a catch block that rethrows)
checklistErrorRethrown == TRUE

\* what the catch block of the checklist sync does with a thrown error: TRUE
\* when it is rethrown to syncTasks, FALSE when it is logged and dropped
checklistErrorPropagates == FALSE

\* syncChecklistsWithTodoWrite: [cards, calls, thrown]
syncChecklistsWithTodoWrite(cs, cl, cardId, todoWriteTasks, fail) ==
  LET cRead == Append(cl, Call("getCardChecklists", cardId, ""))
      checklists == cs[cardId].checklists
      acc0 == [cards |-> cs, calls |-> cRead, thrown |-> FALSE]
      done == checklistLoop("auto",
                LoopPairs(Len(checklists), Len(todoWriteTasks)),
                checklists, todoWriteTasks, cardId, acc0, fail)
  IN  IF "getCardChecklists" \in fail
        THEN [acc0 EXCEPT !.thrown = checklistErrorPropagates]
      ELSE IF Len(checklists) = 0 THEN acc0
      ELSE [done EXCEPT !.thrown = @ /\ checklistErrorPropagates]

\* "Add progress comment for milestones"
milestone(tasks) ==
  LET completed == CountStatus(tasks, "completed")
  IN  completed > 0 /\ (completed % 2 = 0 \/ completed = Len(tasks))

\* SimpleAutoSyncService.syncTasks, checklist-aware service
syncTasksChecklists(tasks, fail) ==
  LET cardId == getActiveCard(session).cardId
  IN
  IF cardId = NoCard
    THEN noActiveCard(session, cards)
    ELSE
      LET s1 == sessionBeforeRemote(session, tasks)
          conn == connect(fail)
          c2 == Append(conn.calls, Call("getCard", cardId, ""))
          updatedDescription ==
            generateUpdatedDescription("auto", cards[cardId].desc, tasks)
          c3 == Append(c2, Call("updateCard", cardId, "desc"))
          cards1 == clientUpdateCard(cards, cardId, updatedDescription)
          chk == syncChecklistsWithTodoWrite(cards1, c3, cardId, tasks, fail)
          completed == CountStatus(tasks, "completed")
          c5 == IF milestone(tasks)
                  THEN Append(chk.calls,
                              CallN("addComment", cardId, "Auto-sync Progress",
                                    <<completed, Len(tasks)>>))
                  ELSE chk.calls
      IN  IF ~conn.ok THEN syncFailed(s1, cards, conn.calls, conn.error)
          ELSE IF "getCard" \in fail
            THEN syncFailed(s1, cards, c2, ErrMsg("getCard"))
          ELSE IF "updateCard" \in fail
            THEN syncFailed(s1, cards, c3, ErrMsg("updateCard"))
          ELSE IF chk.thrown
            THEN syncFailed(s1, chk.cards, chk.calls,
                            ErrMsg(chk.calls[Len(chk.calls)].op))
          ELSE IF milestone(tasks) /\ "addComment" \in fail
            THEN syncFailed(s1, chk.cards, c5, ErrMsg("addComment"))
          ELSE Effect(s1, chk.cards, c5,
                      SyncOutcome(TRUE, "Synced tasks to Trello", NoError, TRUE,
                                  completed, Len(tasks)))

----------------------------------------------------------------------------
(* updateCard (slash-commands.ts) *)

\* syncTasksToChecklists: [cards, calls, thrown]; every error is logged and dropped
\* (a card without checklists skipped, as the automatic sync does)
syncTasksToChecklistsSkipping(cs, cl, cardId, tasks, fail) ==
  LET cRead == Append(cl, Call("getCardChecklists", cardId, ""))
      checklists == cs[cardId].checklists
      acc0 == [cards |-> cs, calls |-> cRead, thrown |-> FALSE]
      done == checklistLoop("slash",
                LoopPairs(Len(checklists), Len(tasks)),
                checklists, tasks, cardId, acc0, fail)
  IN  IF "getCardChecklists" \in fail \/ Len(checklists) = 0 THEN acc0
      ELSE [done EXCEPT !.thrown = FALSE]

syncTasksToChecklists(cs, cl, cardId, tasks, fail) ==
  LET cRead == Append(cl, Call("getCardChecklists", cardId, ""))
      checklists == cs[cardId].checklists
      acc0 == [cards |-> cs, calls |-> cRead, thrown |-> FALSE]
      cMake == Append(cRead, Call("createChecklist", cardId, "Development Tasks"))
      done == checklistLoop("slash",
                LoopPairs(Len(checklists), Len(tasks)),
                checklists, tasks, cardId, acc0, fail)
  IN  IF "getCardChecklists" \in fail THEN acc0
      ELSE IF Len(checklists) = 0
        THEN IF Len(tasks) = 0 THEN acc0
             ELSE IF "createChecklist" \in fail
               THEN [acc0 EXCEPT !.calls = cMake]
             ELSE [acc0 EXCEPT
                     !.calls = cMake,
                     !.cards = clientCreateChecklist(
                                 @, cardId, "Development Tasks", tasks)]
      ELSE [done EXCEPT !.thrown = FALSE]

updateCard(fail) ==
  LET active == getActiveCard(session)
      cardId == active.cardId
      tasks == active.tasks
  IN
  IF cardId = NoCard
    THEN commandFailed("update", session, cards, <<>>,
                       "No active Trello card in session", NoError)
    ELSE
      LET conn == connect(fail)
          c2 == Append(conn.calls, Call("getCard", cardId, ""))
          updatedDescription ==
            generateUpdatedDescription("slash", cards[cardId].desc, tasks)
          c3 == Append(c2, Call("updateCard", cardId, "desc"))
          cards1 == clientUpdateCard(cards, cardId, updatedDescription)
          chk == syncTasksToChecklists(cards1, c3, cardId, tasks, fail)
          c5 == Append(chk.calls, Call("addComment", cardId, "Progress Update"))
      IN  IF ~conn.ok
            THEN commandFailed("update", session, cards, conn.calls,
                               "Failed to update card", conn.error)
          ELSE IF "getCard" \in fail
            THEN commandFailed("update", session, cards, c2,
                               "Failed to update card", ErrMsg("getCard"))
          ELSE IF "updateCard" \in fail
            THEN commandFailed("update", session, cards, c3,
                               "Failed to update card", ErrMsg("updateCard"))
          ELSE IF "addComment" \in fail
            THEN commandFailed("update", session, chk.cards, c5,
                               "Failed to update card", ErrMsg("addComment"))
          ELSE Effect(session, chk.cards, c5,
                      CommandOutcome("update", TRUE, "Card Updated Successfully",
                                     NoError))

----------------------------------------------------------------------------
(* TodoTrelloSync (services/todo-sync.ts): one card per task *)

\* (a status outside the three is mapped to no list)
getTargetListIdStrict(status) ==
  CASE status = "pending" -> envListIds["todo"]
    [] status = "in_progress" -> envListIds["inProgress"]
    [] status = "completed" -> envListIds["done"]
    [] OTHER -> NoList

\* (completed tasks sent to the todo list)
getTargetListIdTodo(status) ==
  CASE status = "in_progress" -> envListIds["inProgress"]
    [] OTHER -> envListIds["todo"]

\* the switch over the status, read from the configuration's listIds only
getTargetListId(status) ==
  CASE status = "pending" -> envListIds["todo"]
    [] status = "in_progress" -> envListIds["inProgress"]
    [] status = "completed" -> envListIds["done"]
    [] OTHER -> envListIds["todo"]

\* the description of a task's card (options = {}: no timestamp line); the
\* "\\n" of the template literals are a backslash and an n, so the text is
\* one line
buildCardDescription(task) ==
  <<"**Task Status:** ", task.status, "\\n**Active Form:** ">>
    \o task.activeForm
    \o <<"\\n\\n**Source:** TodoWrite Integration\\n**Session:** Development Task\\n\\n---\\n*This card was automatically created from a TodoWrite task.*">>

\* a SyncResult: success, cardId, error and action
TaskOutcome(success, cardId, error, action) ==
  [op |-> "syncTask", success |-> success, message |-> action,
   error |-> error, counts |-> FALSE, completed |-> 0, total |-> 0,
   cardId |-> cardId]

\* what syncTask leaves behind: the map, the board, its calls, its result
TaskEffect(stc, cs, cl, res) ==
  [session |-> session, cards |-> cs, calls |-> cl, result |-> res,
   taskCards |-> stc]

NoListConfigured(status) == <<"No list configured for status", status>>

\* `if (!listId) return { success: false, error: 'No list configured ...' }`
unconfiguredList(stc, cs, cardId, status) ==
  TaskEffect(stc, cs, <<>>,
             TaskOutcome(FALSE, cardId, NoListConfigured(status), "skipped"))

\* (a creation that never records the card in the map)
createNewCardUnrecorded(stc, cs, task, newId, fail) ==
  LET listId == getTargetListId(task.status)
      c1 == <<Call("createCard", newId, listId)>>
      cards1 == [cs EXCEPT ![newId] =
                   [exists |-> TRUE, name |-> task.content,
                    desc |-> buildCardDescription(task), idList |-> listId,
                    checklists |-> <<>>, labels |-> {}]]
  IN  IF listId = NoList THEN unconfiguredList(stc, cs, NoCard, task.status)
      ELSE IF "createCard" \in fail
        THEN TaskEffect(stc, cs, c1,
                        TaskOutcome(FALSE, NoCard, ErrMsg("createCard"), "skipped"))
      ELSE TaskEffect(stc, cards1, c1,
                      TaskOutcome(TRUE, newId, NoError, "created"))

\* stc, cs: the map and the board as the call finds them; newId: the id the
\* board gives the new card
createNewCard(stc, cs, task, newId, fail) ==
  LET listId == getTargetListId(task.status)
      description == buildCardDescription(task)
      c1 == <<Call("createCard", newId, listId)>>
      cards1 == [cs EXCEPT ![newId] =
                   [exists |-> TRUE, name |-> task.content,
                    desc |-> description, idList |-> listId,
                    checklists |-> <<>>, labels |-> {}]]
  IN  IF listId = NoList THEN unconfiguredList(stc, cs, NoCard, task.status)
      ELSE IF "createCard" \in fail
        THEN TaskEffect(stc, cs, c1,
                        TaskOutcome(FALSE, NoCard, ErrMsg("createCard"), "skipped"))
      ELSE TaskEffect([stc EXCEPT ![task.content] = newId],
                      cards1, c1,
                      TaskOutcome(TRUE, newId, NoError, "created"))

\* (an update that reports 'moved' whatever the status)
updateExistingCardMoved(stc, cs, cardId, task, fail) ==
  LET targetListId == getTargetListId(task.status)
      c1 == <<Call("moveCard", cardId, targetListId)>>
      cards1 == clientMoveCard(cs, cardId, targetListId)
      c2 == Append(c1, Call("updateCard", cardId, "desc"))
      cards2 == clientUpdateCard(cards1, cardId, buildCardDescription(task))
      c3 == Append(c2, Call("addComment", cardId, "Status updated to"))
      failed(cs1, cl, op) ==
        TaskEffect(stc, cs1, cl,
                   TaskOutcome(FALSE, cardId, ErrMsg(op), "skipped"))
  IN  IF targetListId = NoList
        THEN unconfiguredList(stc, cs, cardId, task.status)
      ELSE IF "moveCard" \in fail THEN failed(cs, c1, "moveCard")
      ELSE IF "updateCard" \in fail THEN failed(cards1, c2, "updateCard")
      ELSE IF "addComment" \in fail THEN failed(cards2, c3, "addComment")
      ELSE TaskEffect(stc, cards2, c3,
                      TaskOutcome(TRUE, cardId, NoError, "moved"))

updateExistingCard(stc, cs, cardId, task, fail) ==
  LET targetListId == getTargetListId(task.status)
      description == buildCardDescription(task)
      c1 == <<Call("moveCard", cardId, targetListId)>>
      cards1 == clientMoveCard(cs, cardId, targetListId)
      c2 == Append(c1, Call("updateCard", cardId, "desc"))
      cards2 == clientUpdateCard(cards1, cardId, description)
      c3 == Append(c2, Call("addComment", cardId, "Status updated to"))
      failed(cs1, cl, op) ==
        TaskEffect(stc, cs1, cl,
                   TaskOutcome(FALSE, cardId, ErrMsg(op), "skipped"))
  IN  IF targetListId = NoList
        THEN unconfiguredList(stc, cs, cardId, task.status)
      ELSE IF "moveCard" \in fail THEN failed(cs, c1, "moveCard")
      ELSE IF "updateCard" \in fail THEN failed(cards1, c2, "updateCard")
      ELSE IF "addComment" \in fail THEN failed(cards2, c3, "addComment")
      ELSE TaskEffect(stc, cards2, c3,
                      TaskOutcome(TRUE, cardId, NoError,
                                  IF task.status = "completed" THEN "moved"
                                                               ELSE "updated"))

syncTask(stc, cs, task, newId, fail) ==
  LET existingCardId == stc[task.content]
  IN  IF existingCardId # NoCard
        THEN updateExistingCard(stc, cs, existingCardId, task, fail)
        ELSE createNewCard(stc, cs, task, newId, fail)

\* an id the board has not given out, NoCard when the model has none left
freshId(cs) ==
  IF \E id \in CardIds : ~cs[id].exists
    THEN CHOOSE id \in CardIds : ~cs[id].exists
    ELSE NoCard

\* the task needs a new card and the model has no id left for it
outOfIds(stc, cs, task, fail) ==
  /\ stc[task.content] = NoCard
  /\ getTargetListId(task.status) # NoList
  /\ "createCard" \notin fail
  /\ freshId(cs) = NoCard

\* the loop of TodoTrelloSync.syncTasks: acc = [taskCards, cards, calls,
\* results, short]; each task's result is pushed whatever it is
RECURSIVE syncTasksLoop(_, _, _)
syncTasksLoop(acc, tasks, fail) ==
  IF tasks = <<>> \/ acc.short THEN acc
  ELSE IF outOfIds(acc.taskCards, acc.cards, Head(tasks), fail)
    THEN [acc EXCEPT !.short = TRUE]
  ELSE
    LET e == syncTask(acc.taskCards, acc.cards, Head(tasks),
                      freshId(acc.cards), fail)
    IN  syncTasksLoop([taskCards |-> e.taskCards, cards |-> e.cards,
                       calls |-> acc.calls \o e.calls,
                       results |-> Append(acc.results, e.result),
                       short |-> FALSE],
                      Tail(tasks), fail)

\* (a loop that returns at the first task that fails)
RECURSIVE syncTasksLoopStopping(_, _, _)
syncTasksLoopStopping(acc, tasks, fail) ==
  IF tasks = <<>> \/ acc.short THEN acc
  ELSE IF outOfIds(acc.taskCards, acc.cards, Head(tasks), fail)
    THEN [acc EXCEPT !.short = TRUE]
  ELSE
    LET e == syncTask(acc.taskCards, acc.cards, Head(tasks),
                      freshId(acc.cards), fail)
        next == [taskCards |-> e.taskCards, cards |-> e.cards,
                 calls |-> acc.calls \o e.calls,
                 results |-> Append(acc.results, e.result),
                 short |-> FALSE]
    IN  IF e.result.success
          THEN syncTasksLoopStopping(next, Tail(tasks), fail)
          ELSE next

todoSyncTasksStopping(stc, cs, tasks, fail) ==
  syncTasksLoopStopping([taskCards |-> stc, cards |-> cs, calls |-> <<>>,
                         results |-> <<>>, short |-> FALSE],
                        tasks, fail)

\* TodoTrelloSync.syncTasks(tasks)
todoSyncTasks(stc, cs, tasks, fail) ==
  syncTasksLoop([taskCards |-> stc, cards |-> cs, calls |-> <<>>,
                 results |-> <<>>, short |-> FALSE],
                tasks, fail)

\* mapTaskToCard(taskContent, cardId)
mapTaskToCard(stc, taskContent, cardId) == [stc EXCEPT ![taskContent] = cardId]

\* (only a card whose name equals the content is linked)
matchingCardExact(found, content) ==
  findIndex(found,
    LAMBDA id : toLowerCase(cards[id].name) = toLowerCase(content))

\* the card linkExistingCards links a task to: the first search result whose
\* name, in lower case, equals, contains or is contained in the content
matchingCard(found, content) ==
  findIndex(found,
    LAMBDA id :
      LET name == toLowerCase(cards[id].name)
          text == toLowerCase(content)
      IN  name = text \/ includes(name, text) \/ includes(text, name))

\* linkExistingCards: one search per task, found is what every search
\* returns; a failed search is logged and the task left unlinked
RECURSIVE linkExistingCards(_, _, _, _)
linkExistingCards(stc, tasks, found, fail) ==
  IF tasks = <<>> THEN stc
  ELSE
    LET task == Head(tasks)
        k == matchingCard(found, task.content)
    IN  linkExistingCards(
          IF "searchCards" \in fail \/ k = 0 THEN stc
          ELSE mapTaskToCard(stc, task.content, found[k]),
          Tail(tasks), found, fail)

\* cleanup(): this.sessionTaskCards.clear()
cleanup(stc) == [c \in DOMAIN stc |-> NoCard]

----------------------------------------------------------------------------
(* Inputs of the orchestrator specification *)

\* longest card description, in lines, a sync may write
MaxDescLines == 10
\* longest line, in code units, of a description a sync may write
MaxLineUnits == 8

TaskA(status) == [content |-> <<"a">>, status |-> status, activeForm |-> <<"A">>]

TaskB(status) == [content |-> <<"B", SP, "b">>, status |-> status, activeForm |-> <<"B">>]

\* the batches the planner submits
Batches ==
  { <<>>,
    <<TaskA("pending"), TaskB("in_progress")>>,
    <<TaskA("completed"), TaskB("completed")>> }

\* the plans /trello-create is given; the empty text stands for no plan
Plans ==
  { <<>>,
    <<"F", "i", "x", SP, "i", "t", LF, "-", SP, "a", LF, "1", ".", SP, "B", SP, "b">> }

\* descriptions the card on the board starts with
InitialDescs ==
  { <<"i", "n", "t", "r", "o">>,
    <<"#", SP, "P", LF, "-", SP, "o", "l", "d", LF, LF, "-", "-", "-", LF, "f">>,
    \* a body made only of a task line
    <<"-", SP, "o", "l", "d">> }

\* checklists the card on the board starts with
InitialChecklist ==
  << [name |-> "Development Tasks",
      checkItems |-> << [name |-> <<"A">>, state |-> "incomplete"] >>] >>

\* the board has a list for each role a command targets; a board whose lists
\* are unknown to the client is reached through a failing getLists
BoardListChoices == { {"todo", "inProgress", "done"} }

\* no TRELLO_LIST_* variable is set
NoEnvLists == [r \in Roles |-> NoList]

EnvListChoices == { NoEnvLists }

\* the task contents TodoTrelloSync is given
TodoContents == {TaskA("pending").content, TaskB("pending").content}

\* the empty sessionTaskCards map
NoTaskCards == [c \in TodoContents |-> NoCard]

\* the remote operations whose failure is injected
RemoteOps ==
  {"members", "getLists", "getBoard", "getCard", "updateCard", "moveCard",
   "addComment", "searchCards", "createCard", "createChecklist",
   "getCardChecklists", "updateChecklistItem", "getBoardLabels",
   "createLabel", "addLabelToCard"}

\* most operations that fail during one automatic sync
MaxFailures == 2

\* the failures injected into a command that calls the operations ops: none,
\* or every call of one operation fails while it runs
FailSets(ops) == {{}} \cup {{o} : o \in ops}

\* the failures injected into an automatic sync: every call of each operation
\* of the set fails while it runs
SyncFailSets(ops) == {f \in SUBSET ops : Cardinality(f) <= MaxFailures}

\* (a sync makes no use of the lists connect discovers: a failing getLists
\* changes nothing it does)
SyncOps == {"members", "getCard", "updateCard", "addComment"}

ChecklistSyncOps == SyncOps \cup {"getCardChecklists", "updateChecklistItem"}

UpdateOps == ChecklistSyncOps \cup {"createChecklist"}

CompleteOps == {"members", "getLists", "moveCard", "addComment"}

PickupOps == {"members", "getLists", "getCard", "searchCards", "moveCard", "addComment"}

StatusOps == {"members", "getLists", "getCard"}

CreateOps ==
  {"members", "getLists", "getBoard", "createCard", "createChecklist",
   "getBoardLabels", "createLabel", "addLabelToCard"}

NoCardRecord ==
  [exists |-> FALSE, name |-> <<>>, desc |-> <<>>, idList |-> "other",
   checklists |-> <<>>, labels |-> {}]

\* the board starts without the card or with the card in the todo list
InitialCards ==
  {NoCardRecord} \cup
  {[exists |-> TRUE, name |-> <<"n", "1">>, desc |-> d, idList |-> "todo",
    checklists |-> InitialChecklist, labels |-> {}] : d \in InitialDescs}

NoResult == CommandOutcome("none", TRUE, "", NoError)

\* what a process is invoked with: the operation, the task batch (syncs) and
\* the remote operations that fail while it runs
Request(op, tasks, fail) == [op |-> op, tasks |-> tasks, fail |-> fail]

NoRequest == Request("none", <<>>, {})

Snapshot(s, cs) == [session |-> s, cards |-> cs]

NoSnapshot == Snapshot(EmptySession, [id \in CardIds |-> NoCardRecord])

----------------------------------------------------------------------------
(* Specification of the orchestrator: one action per caller-facing operation. *)
(* Every operation runs in a process of its own (the PostToolUse hook, the    *)
(* CLI): the process runs the handler, prints the outcome and exits; the      *)
(* session file and the board outlive it.                                     *)

ReconIdle ==
  /\ rImpl = "auto"
  /\ rBody = <<>>
  /\ rTasks = <<>>
  /\ rPass = 0
  /\ rOut1 = <<>>
  /\ rOut2 = <<>>

Init ==
  /\ ReconIdle
  /\ WritersIdle
  /\ MatcherIdle
  /\ session = EmptySession
  /\ cards \in [CardIds -> InitialCards]
  /\ boardLists \in BoardListChoices
  /\ envListIds \in EnvListChoices
  /\ sessionTaskCards = NoTaskCards
  /\ labels = {}
  /\ result = NoResult
  /\ calls = <<>>
  /\ request = NoRequest
  /\ before = NoSnapshot

\* the description has at most MaxDescLines lines of at most MaxLineUnits units
LinesBounded(d) ==
  /\ Cardinality({k \in 1..Len(d) : d[k] = LF}) < MaxDescLines
  /\ \A i \in 1..(Len(d) - MaxLineUnits) :
       \E k \in i..(i + MaxLineUnits) : d[k] = LF

DescBounded(cs) == {id \in CardIds : ~LinesBounded(cs[id].desc)} = {}

\* no process is running
Idle == request = NoRequest

\* the handler's effect becomes the next state
Apply(req, effect) ==
  /\ \E e \in {effect} :
       /\ DescBounded(e.cards)
       /\ session' = e.session
       /\ cards' = e.cards
       /\ result' = e.result
       /\ calls' = e.calls
  /\ request' = req
  /\ before' = Snapshot(session, cards)

SyncTasks ==
  /\ Idle
  /\ \E tasks \in Batches, fail \in SyncFailSets(SyncOps) :
         /\ Apply(Request("syncTasks", tasks, fail), syncTasks(tasks, fail))
         /\ UNCHANGED <<rvars, wvars, mvars, sessionTaskCards, boardLists, envListIds, labels>>

SyncTasksChecklists ==
  /\ Idle
  /\ \E tasks \in Batches, fail \in SyncFailSets(ChecklistSyncOps) :
         /\ Apply(Request("syncTasksChecklists", tasks, fail),
                  syncTasksChecklists(tasks, fail))
         /\ UNCHANGED <<rvars, wvars, mvars, sessionTaskCards, boardLists, envListIds, labels>>

UpdateCard ==
  /\ Idle
  /\ \E fail \in FailSets(UpdateOps) :
         /\ Apply(Request("update", <<>>, fail), updateCard(fail))
         /\ UNCHANGED <<rvars, wvars, mvars, sessionTaskCards, boardLists, envListIds, labels>>

CompleteCard ==
  /\ Idle
  /\ \E fail \in FailSets(CompleteOps) :
         /\ Apply(Request("complete", <<>>, fail), completeCard(fail))
         /\ UNCHANGED <<rvars, wvars, mvars, sessionTaskCards, boardLists, envListIds, labels>>

PickupCard ==
  /\ Idle
  /\ \E id \in CardIds \cup {NoCard}, found \in SearchResults,
          fail \in FailSets(PickupOps) :
         /\ Apply(Request("pickup", <<>>, fail), pickupCard(id, found, fail))
         /\ UNCHANGED <<rvars, wvars, mvars, sessionTaskCards, boardLists, envListIds, labels>>

ShowStatus ==
  /\ Idle
  /\ \E fail \in FailSets(StatusOps) :
         /\ Apply(Request("status", <<>>, fail), showStatus(fail))
         /\ UNCHANGED <<rvars, wvars, mvars, sessionTaskCards, boardLists, envListIds, labels>>

CreateCardFromPlan ==
  /\ Idle
  /\ \E planText \in Plans, newId \in CardIds, fail \in FailSets(CreateOps) :
         /\ ~cards[newId].exists
         /\ \E e \in {createCardFromPlan(planText, newId, fail)} :
              /\ Apply(Request("create", <<>>, fail), e)
              /\ labels' = e.labels
         /\ UNCHANGED <<rvars, wvars, mvars, sessionTaskCards, boardLists, envListIds>>

\* the process prints the outcome and exits
Exit ==
  /\ request # NoRequest
  /\ request' = NoRequest
  /\ before' = NoSnapshot
  /\ result' = NoResult
  /\ calls' = <<>>
  /\ UNCHANGED <<rvars, wvars, mvars, session, cards, sessionTaskCards, boardLists, envListIds, labels>>

Next ==
  \/ SyncTasks
  \/ SyncTasksChecklists
  \/ UpdateCard
  \/ CompleteCard
  \/ PickupCard
  \/ CreateCardFromPlan
  \/ ShowStatus
  \/ Exit

Spec == Init /\ [][Next]_vars

----------------------------------------------------------------------------
(* Specification of the Description Reconciler applied twice *)

OrchestratorIdle ==
  /\ session = EmptySession
  /\ cards = [id \in CardIds |-> NoCardRecord]
  /\ boardLists = {}
  /\ envListIds = NoEnvLists
  /\ sessionTaskCards = NoTaskCards
  /\ labels = {}
  /\ result = NoResult
  /\ calls = <<>>
  /\ request = NoRequest
  /\ before = NoSnapshot

ReconInit ==
  /\ rImpl \in Impls
  /\ rBody \in ReconBodies
  /\ rTasks \in ReconBatches
  /\ rPass = 0
  /\ rOut1 = <<>>
  /\ rOut2 = <<>>
  /\ OrchestratorIdle
  /\ WritersIdle
  /\ MatcherIdle

\* first pass: R(B, T)
Reconcile ==
  /\ rPass = 0
  /\ rOut1' = generateUpdatedDescription(rImpl, rBody, rTasks)
  /\ rPass' = 1
  /\ UNCHANGED <<rImpl, rBody, rTasks, rOut2, ovars, wvars, mvars>>

\* second pass on the first pass's output: R(R(B, T), T)
ReconcileAgain ==
  /\ rPass = 1
  /\ rOut2' = generateUpdatedDescription(rImpl, rOut1, rTasks)
  /\ rPass' = 2
  /\ UNCHANGED <<rImpl, rBody, rTasks, rOut1, ovars, wvars, mvars>>

ReconNext == Reconcile \/ ReconcileAgain

ReconSpec == ReconInit /\ [][ReconNext]_vars

----------------------------------------------------------------------------
(* Specification of checklist reconciliation: a session bound to a card that *)
(* carries checklists, synced again and again with batches whose tasks match *)
(* the checklist items in every way the matchers know.                       *)

ItemA == <<"a">>

ItemAB == <<"a", SP, "b">>

CheckItem(name, state) == [name |-> name, state |-> state]

ItemStates == {"incomplete", "complete"}

\* the checklists the card starts with: none, one checklist of one or two
\* items, two checklists of one item each
ChecklistChoices ==
  { <<>> }
  \cup { << [name |-> "Development Tasks",
             checkItems |-> <<CheckItem(ItemA, s)>>] >> : s \in ItemStates }
  \cup { << [name |-> "Development Tasks",
             checkItems |-> <<CheckItem(ItemA, s), CheckItem(ItemAB, "incomplete")>>] >> :
          s \in ItemStates }
  \cup { << [name |-> "Development Tasks",
             checkItems |-> <<CheckItem(ItemA, s)>>],
            [name |-> "More",
             checkItems |-> <<CheckItem(ItemAB, "incomplete")>>] >> :
          s \in ItemStates }

\* the tasks of a checklist batch: "a" and "A" normalize to the same text
ChecklistTasks ==
  { [content |-> c, status |-> s, activeForm |-> <<"A">>] :
      c \in {ItemA, <<"A">>, ItemAB}, s \in {"pending", "completed"} }

\* batches of up to two tasks; a batch of two starts with the task "a"
ChecklistBatches ==
  { <<>> } \cup { <<t>> : t \in ChecklistTasks }
           \cup { <<t, u>> : t \in {x \in ChecklistTasks : x.content = ItemA},
                             u \in ChecklistTasks }

ChecklistFailOps == {"updateChecklistItem"}

ChecklistInit ==
  /\ ReconIdle
  /\ WritersIdle
  /\ MatcherIdle
  /\ \E cl \in ChecklistChoices :
       cards = [id \in CardIds |->
                  [exists |-> TRUE, name |-> <<"n", "1">>, desc |-> <<"f">>,
                   idList |-> "inProgress", checklists |-> cl, labels |-> {}]]
  /\ session = setActiveCard(EmptySession, "c1", <<"n", "1">>, <<>>)
  /\ boardLists \in BoardListChoices
  /\ envListIds \in EnvListChoices
  /\ sessionTaskCards = NoTaskCards
  /\ labels = {}
  /\ result = NoResult
  /\ calls = <<>>
  /\ request = NoRequest
  /\ before = NoSnapshot

\* the PostToolUse hook of the checklist-aware service, given a batch
SyncChecklistBatch ==
  /\ Idle
  /\ \E tasks \in ChecklistBatches, fail \in FailSets(ChecklistFailOps) :
         /\ Apply(Request("syncTasksChecklists", tasks, fail),
                  syncTasksChecklists(tasks, fail))
         /\ UNCHANGED <<rvars, wvars, mvars, sessionTaskCards, boardLists, envListIds, labels>>

\* /trello-update with the tasks the session holds
UpdateChecklists ==
  /\ Idle
  /\ \E fail \in FailSets(ChecklistFailOps) :
         /\ Apply(Request("update", session.linkedTasks, fail), updateCard(fail))
         /\ UNCHANGED <<rvars, wvars, mvars, sessionTaskCards, boardLists, envListIds, labels>>

ChecklistNext == SyncChecklistBatch \/ UpdateChecklists \/ Exit

ChecklistSpec == ChecklistInit /\ [][ChecklistNext]_vars

----------------------------------------------------------------------------
(* Specification of list resolution: boards that lack a list for some role,  *)
(* configurations that name lists or leave them to discovery, and the        *)
(* operations that place a card in a role's list: TodoTrelloSync.syncTask,   *)
(* /trello-create, /trello-pickup and /trello-complete.                      *)

\* the roles the board has a list for
ListBoards ==
  { {"todo", "inProgress", "done"}, {"todo", "done"}, {"todo", "inProgress"} }

\* the configuration: nothing set, or todo and done set to the board's lists
\* and inProgress to a list whose name discovery does not recognize
ListEnvs ==
  { NoEnvLists,
    [r \in Roles |-> CASE r = "todo" -> "todo"
                       [] r = "inProgress" -> "other"
                       [] r = "done" -> "done"
                       [] OTHER -> NoList] }

\* the statuses of the type, and one that the hook's JSON may carry besides
Statuses == {"pending", "in_progress", "completed"}

TodoStatuses == Statuses \cup {"blocked"}

TodoTasks == {TaskA(s) : s \in TodoStatuses} \cup {TaskB(s) : s \in TodoStatuses}

TodoOps == {"createCard", "moveCard", "updateCard", "addComment"}

\* what searchCards returns to linkExistingCards
LinkResults == {<<>>} \cup {<<id>> : id \in {c \in CardIds : cards[c].exists}}

\* the cards of the board: the name of an existing card contains the content
\* of task "a" in another case
ListCards ==
  {IF c.exists THEN [c EXCEPT !.name = <<"A", SP, "b">>] ELSE c :
     c \in InitialCards}

\* the batches TodoTrelloSync.syncTasks is given: none, one or two tasks
TodoBatches ==
  { <<>> } \cup { <<t>> : t \in TodoTasks }
           \cup { <<t, u>> : t \in TodoTasks, u \in TodoTasks }

\* the array of SyncResults syncTasks returns
BatchOutcome(results) ==
  [op |-> "todoSyncTasks",
   success |-> \A k \in 1..Len(results) : results[k].success,
   message |-> "", error |-> NoError, counts |-> FALSE, completed |-> 0,
   total |-> 0, results |-> results]

ListInit ==
  /\ ReconIdle
  /\ WritersIdle
  /\ MatcherIdle
  /\ session = EmptySession
  /\ cards \in [CardIds -> ListCards]
  /\ boardLists \in ListBoards
  /\ envListIds \in ListEnvs
  /\ sessionTaskCards = NoTaskCards
  /\ labels = {}
  /\ result = NoResult
  /\ calls = <<>>
  /\ request = NoRequest
  /\ before = NoSnapshot

\* one syncTask call on the service; a new card needs an id the board has
\* not given out
SyncTask ==
  /\ Idle
  /\ \E task \in TodoTasks, newId \in CardIds, fail \in FailSets(TodoOps) :
         /\ \/ sessionTaskCards[task.content] # NoCard
            \/ ~cards[newId].exists
            \/ getTargetListId(task.status) = NoList
         /\ \E e \in {syncTask(sessionTaskCards, cards, task, newId, fail)} :
              /\ Apply(Request("syncTask", <<task>>, fail), e)
              /\ sessionTaskCards' = e.taskCards
         /\ UNCHANGED <<rvars, wvars, mvars, boardLists, envListIds, labels>>

\* one syncTasks call on the service
SyncTaskBatch ==
  /\ Idle
  /\ \E tasks \in TodoBatches, fail \in FailSets(TodoOps) :
       \E e \in {todoSyncTasks(sessionTaskCards, cards, tasks, fail)} :
         /\ ~e.short
         /\ sessionTaskCards' = e.taskCards
         /\ cards' = e.cards
         /\ calls' = e.calls
         /\ result' = BatchOutcome(e.results)
         /\ request' = Request("todoSyncTasks", tasks, fail)
         /\ before' = [session |-> session, cards |-> cards,
                       taskCards |-> sessionTaskCards]
  /\ UNCHANGED <<rvars, wvars, mvars, session, boardLists, envListIds, labels>>

LinkExistingCards ==
  /\ Idle
  /\ \E task \in TodoTasks, found \in LinkResults,
          fail \in FailSets({"searchCards"}) :
         /\ sessionTaskCards' =
              linkExistingCards(sessionTaskCards, <<task>>, found, fail)
         /\ request' = Request("link", <<task>>, fail)
         /\ before' = Snapshot(session, cards)
         /\ result' = CommandOutcome("link", TRUE, "", NoError)
         /\ calls' = <<Call("searchCards",
                            IF found = <<>> THEN NoCard ELSE found[1], "")>>
         /\ UNCHANGED <<rvars, wvars, mvars, session, cards, boardLists, envListIds, labels>>

Cleanup ==
  /\ Idle
  /\ sessionTaskCards # NoTaskCards
  /\ sessionTaskCards' = cleanup(sessionTaskCards)
  /\ UNCHANGED <<rvars, wvars, mvars, session, cards, boardLists, envListIds, labels,
                 result, calls, request, before>>

ListNext ==
  \/ SyncTask
  \/ SyncTaskBatch
  \/ LinkExistingCards
  \/ Cleanup
  \/ PickupCard
  \/ CompleteCard
  \/ CreateCardFromPlan
  \/ Exit

ListSpec == ListInit /\ [][ListNext]_vars

----------------------------------------------------------------------------
(* Specification of concurrent writers of the session file.  Each invocation *)
(* is a process of its own; what it does to the session is one call of the   *)
(* session store, which reads the file and later writes it, and another      *)
(* process may read or write the file in between.                            *)

Writers == 1..2

\* the mutations of the session store the handlers call
SessionOps ==
  {[fn |-> "setActiveCard", cardId |-> c, tasks |-> t] :
     c \in {"c1", OtherCard}, t \in Batches}
  \cup {[fn |-> "updateSessionTasks", cardId |-> NoCard, tasks |-> t] :
          t \in Batches}
  \cup {[fn |-> "clearSession", cardId |-> NoCard, tasks |-> <<>>]}

\* the record a writer saves, given the one it loaded
mutated(op, loaded) ==
  IF op.fn = "setActiveCard"
    THEN setActiveCard(loaded, op.cardId, <<op.cardId>>, op.tasks)
    ELSE updateSessionTasks(loaded, op.tasks)

\* the session files the writers find
RaceSessions ==
  {EmptySession,
   setActiveCard(EmptySession, "c1", <<"c1">>,
                 <<TaskA("pending"), TaskB("in_progress")>>)}

RaceInit ==
  /\ ReconIdle
  /\ MatcherIdle
  /\ session \in RaceSessions
  /\ cards = [id \in CardIds |-> NoCardRecord]
  /\ boardLists = {}
  /\ envListIds = NoEnvLists
  /\ sessionTaskCards = NoTaskCards
  /\ labels = {}
  /\ result = NoResult
  /\ calls = <<>>
  /\ request = NoRequest
  /\ before = NoSnapshot
  /\ writers \in [Writers ->
                    {[op |-> o, pc |-> "start", loaded |-> EmptySession,
                      seen |-> 0] : o \in SessionOps}]
  /\ writes = <<>>

\* loadSession at the head of setActiveCard and updateSessionTasks
LoadSession ==
  /\ \E w \in Writers :
       /\ writers[w].pc = "start"
       /\ writers[w].op.fn # "clearSession"
       /\ writers' = [writers EXCEPT ![w].pc = "loaded",
                                     ![w].loaded = session,
                                     ![w].seen = Len(writes)]
  /\ UNCHANGED <<rvars, ovars, mvars, writes>>

\* saveSession at their end; updateSessionTasks saves only when the record it
\* loaded has a card
SaveSession ==
  /\ \E w \in Writers :
       /\ writers[w].pc = "loaded"
       /\ writers' = [writers EXCEPT ![w].pc = "done"]
       /\ IF /\ writers[w].op.fn = "updateSessionTasks"
             /\ writers[w].loaded.currentCardId = NoCard
            THEN UNCHANGED <<session, writes>>
            ELSE \E record \in {mutated(writers[w].op, writers[w].loaded)} :
                   /\ session' = saveSession(record)
                   /\ writes' = Append(writes, [by |-> w, record |-> record])
  /\ UNCHANGED <<rvars, mvars, cards, boardLists, envListIds, sessionTaskCards,
                 labels, result, calls, request, before>>

\* clearSession writes the empty record without reading the file's content,
\* and writes nothing when the file does not exist; an absent file and one
\* holding the empty record are the same session
ClearSession ==
  /\ \E w \in Writers :
       /\ writers[w].pc = "start"
       /\ writers[w].op.fn = "clearSession"
       /\ writers' = [writers EXCEPT ![w].pc = "done",
                                     ![w].seen = Len(writes)]
       /\ IF session = EmptySession
            THEN UNCHANGED <<session, writes>>
            ELSE /\ session' = clearSession(session)
                 /\ writes' = Append(writes, [by |-> w,
                                              record |-> clearSession(session)])
  /\ UNCHANGED <<rvars, mvars, cards, boardLists, envListIds, sessionTaskCards,
                 labels, result, calls, request, before>>

RaceNext == LoadSession \/ SaveSession \/ ClearSession

RaceSpec == RaceInit /\ [][RaceNext]_vars

----------------------------------------------------------------------------
(* Specification of the matcher: findMatchingChecklistItem applied to the *)
(* items of one checklist and one task content.                           *)

\* item names: equal to the content, equal once cleaned, contained in it,
\* sharing its keyword only, unrelated
MatchNames ==
  { <<"a", "b", "c", "d", SP, "e">>,
    <<"A", "b", "c", "d", SP, "e", "!">>,
    <<"a", "b", "c", "d">>,
    <<"a", "b", "c", "d", SP, "x">>,
    <<"z", "z">> }

MatchContents ==
  { <<"a", "b", "c", "d", SP, "e">>,
    <<"U2705", SP, "A", "b", "c", "d", SP, SP, "e">>,
    <<"z">> }

\* the check items of the checklist: up to three
MatchItems ==
  { <<>> } \cup { <<CheckItem(n, "incomplete")>> : n \in MatchNames }
           \cup { <<CheckItem(n, "incomplete"), CheckItem(m, "incomplete")>> :
                    n \in MatchNames, m \in MatchNames }
           \cup { <<CheckItem(n, "incomplete"), CheckItem(m, "incomplete"),
                     CheckItem(o, "incomplete")>> :
                    n \in MatchNames, m \in MatchNames, o \in MatchNames }

MatchInit ==
  /\ ReconIdle
  /\ OrchestratorIdle
  /\ WritersIdle
  /\ mItems \in MatchItems
  /\ mContent \in MatchContents
  /\ mDone = FALSE
  /\ mMatch = 0

FindMatch ==
  /\ ~mDone
  /\ mDone' = TRUE
  /\ mMatch' = findMatchingChecklistItem(mItems, mContent)
  /\ UNCHANGED <<rvars, ovars, wvars, mItems, mContent>>

MatchNext == FindMatch

MatchSpec == MatchInit /\ [][MatchNext]_vars

----------------------------------------------------------------------------
(* Properties of the Description Reconciler, checked under ReconSpec *)

\* the lines of a body that the reconciler does not take for task lines
NonTaskLines(impl, lines) ==
  SelectSeq(lines, LAMBDA l : ~IsTaskLine(impl, trim(l)))

\* a is b with some elements left out
RECURSIVE IsSubsequence(_, _)
IsSubsequence(a, b) ==
  IF a = <<>> THEN TRUE
  ELSE IF b = <<>> THEN FALSE
  ELSE IF Head(a) = Head(b) THEN IsSubsequence(Tail(a), Tail(b))
  ELSE IsSubsequence(a, Tail(b))

\* the positions at which block occurs in lines as consecutive lines
Occurrences(lines, block) ==
  {i \in 1..(Len(lines) - Len(block) + 1) :
     SubSeq(lines, i, i + Len(block) - 1) = block}

\* C1: reconciling the output of a reconciliation again, with the same tasks,
\* returns that output unchanged: R(R(B,T),T) = R(B,T).
C1_Idempotent == rPass = 2 => rOut2 = rOut1

\* C9: every line of the body that is not a task line is a line of the
\* output, and these lines come in the output in the order of the body.
C9_NonTaskLinesKept ==
  rPass >= 1 =>
    IsSubsequence(NonTaskLines(rImpl, split(rBody)), split(rOut1))

\* C9 witness: a body whose task-line run is closed by a blank line that a
\* text line follows has been reconciled with a non-empty batch
C9_Witness ==
  /\ rPass = 1
  /\ rTasks # <<>>
  /\ rBody = <<"-", SP, "a", LF, LF, "a">>
  /\ split(rOut1)[Len(split(rOut1))] = <<"a">>

\* C10: with a non-empty batch the output holds the rendered tasks as one
\* block of consecutive lines, in exactly one place.
C10_OneTaskBlock ==
  (rPass >= 1 /\ rTasks # <<>>) =>
    Cardinality(Occurrences(split(rOut1), RenderTasks(rImpl, rTasks))) = 1

----------------------------------------------------------------------------
(* Properties of the orchestrator, checked under Spec.  They are stated of  *)
(* the state a process leaves when its handler has returned: request is what *)
(* it was invoked with, before what it found, result and calls what it did.  *)

\* an automatic sync (either SimpleAutoSyncService) has run
SyncRan == request.op \in {"syncTasks", "syncTasksChecklists"}

\* a sync that maintains checklists has run
ChecklistSyncRan == request.op \in {"syncTasksChecklists", "update"}

Bound(s) == s.currentCardId # NoCard

\* connect, card fetch and description update
PrimaryOps == {"members", "getCard", "updateCard"}

ChecklistOps == {"getCardChecklists", "updateChecklistItem"}

\* the positions in calls of the calls that failed
FailedCalls(ops) ==
  {k \in 1..Len(calls) : calls[k].op \in (request.fail \cap ops)}

C6_SessionHoldsBatch ==
  (SyncRan /\ result.success /\ Bound(before.session)) =>
    /\ session.linkedTasks = request.tasks
    /\ session.currentCardId = before.session.currentCardId
    /\ session.currentCardName = before.session.currentCardName

\* C6 witness: a sync of a non-empty batch has succeeded on a session that
\* held other tasks
C6_Witness ==
  /\ SyncRan
  /\ result.success
  /\ Bound(before.session)
  /\ before.session.linkedTasks # <<>>
  /\ request.tasks # <<>>
  /\ request.tasks # before.session.linkedTasks

\* C7: after complete returns success the session has no active card and no
\* tasks.
C7_CompleteClearsSession ==
  (request.op = "complete" /\ result.success) =>
    /\ session.currentCardId = NoCard
    /\ session.linkedTasks = <<>>

\* C7 witness: complete has succeeded on a session that held tasks
C7_Witness ==
  /\ request.op = "complete"
  /\ result.success
  /\ Bound(before.session)
  /\ before.session.linkedTasks # <<>>

\* a process has started in this step
Started == request = NoRequest /\ request' # NoRequest

\* C8: a successful complete leaves the session without a card; from then on
\* every sync issues no remote call and leaves the board alone, and the
\* session gets a card again only by a create or a pickup that succeeds.
C8_NoSyncAfterComplete ==
  [][/\ (Started /\ request'.op = "complete" /\ result'.success) =>
          ~Bound(session')
     /\ (Started /\ ~Bound(session)) =>
          /\ (request'.op \in {"syncTasks", "syncTasksChecklists"}) =>
                (calls' = <<>> /\ cards' = cards /\ session' = session)
          /\ Bound(session') =>
                (request'.op \in {"create", "pickup"} /\ result'.success)
    ]_vars

\* C8 witness: a sync has run on the session a complete had cleared, the
\* completed card lying in the done list
C8_Witness ==
  /\ SyncRan
  /\ request.tasks # <<>>
  /\ ~Bound(before.session)
  /\ \E id \in CardIds : before.cards[id].idList = "done"
  /\ calls = <<>>

----------------------------------------------------------------------------
(* Properties of checklist reconciliation, checked under ChecklistSpec *)

\* the card a process found bound when it started
ActiveCard == before.session.currentCardId

\* the places <<checklist, item>> of the items of checklists cl whose
\* normalized name is the normalized content
ExactMatches(cl, content) ==
  { p \in UNION {{<<ci, ii>> : ii \in 1..Len(cl[ci].checkItems)} : ci \in 1..Len(cl)} :
      cleanTaskContent(cl[p[1]].checkItems[p[2]].name) = cleanTaskContent(content) }

\* the positions in calls of the updateChecklistItem calls
UpdateCalls == {k \in 1..Len(calls) : calls[k].op = "updateChecklistItem"}

\* the state the item of update call k is in when the call is issued
StateAtCall(k) ==
  LET prior == {j \in UpdateCalls : j < k /\ calls[j].nums = calls[k].nums}
      last == CHOOSE j \in prior : \A i \in prior : i <= j
      place == calls[k].nums
  IN  IF prior = {}
        THEN before.cards[ActiveCard].checklists[place[1]].checkItems[place[2]].state
        ELSE calls[last].arg

\* C11: after a checklist reconciliation in which no call failed, of a batch
\* whose every task matches exactly the normalized name of exactly one
\* item, each such item is complete if and only if its task is completed.
C11_ChecklistConverges ==
  ( /\ request.op = "syncTasksChecklists"
    /\ Bound(before.session)
    /\ request.fail = {}
    /\ \A k \in 1..Len(request.tasks) :
         Cardinality(ExactMatches(before.cards[ActiveCard].checklists,
                                  request.tasks[k].content)) = 1 )
  => \A k \in 1..Len(request.tasks) :
       \A p \in ExactMatches(before.cards[ActiveCard].checklists,
                              request.tasks[k].content) :
         cards[ActiveCard].checklists[p[1]].checkItems[p[2]].state
           = ItemState(request.tasks[k].status = "completed")

\* C12: a checklist reconciliation issues updateChecklistItem for an item
\* only when the state the item is in differs from the state the call sets.
C12_UpdatesOnlyOnDifference ==
  (ChecklistSyncRan /\ Bound(before.session)) =>
    \A k \in UpdateCalls : StateAtCall(k) # calls[k].arg

----------------------------------------------------------------------------
(* Properties of list resolution, checked under ListSpec *)

\* a syncTask call has run; its task
TaskSynced == request.op = "syncTask"

SyncedTask == request.tasks[1]

\* the role the contract gives a status
RoleOfStatus(status) ==
  IF status = "pending" THEN "todo"
  ELSE IF status = "in_progress" THEN "inProgress"
  ELSE "done"

\* the role whose list the operation that ran places its card in
RequiredRole ==
  IF request.op = "pickup" THEN "inProgress"
  ELSE IF request.op = "complete" THEN "done"
  ELSE RoleOfStatus(SyncedTask.status)

\* the list a role resolves to: the configured one, else the discovered one
ResolvedList(role) ==
  IF envListIds[role] # NoList THEN envListIds[role]
  ELSE IF role \in boardLists THEN role
  ELSE NoList

\* the positions in calls of the calls that put a card in a list
PlacingCalls == {k \in 1..Len(calls) : calls[k].op \in {"createCard", "moveCard"}}

\* the operation got as far as needing the list: a pickup found its card,
\* a complete had an active card, and no remote call was made to fail
NeedsList ==
  /\ request.fail = {}
  /\ request.op = "pickup" =>
       result.message \notin {"No card found matching", "Multiple cards found",
                              "Card not found"}
  /\ request.op = "complete" => Bound(before.session)

\* C13: when syncTask, pickup or complete needs the list of a role that no
\* list is bound to, it does not report success and places no card; its
\* failure names the missing list.
C13_UnboundRoleFails ==
  ( /\ request.op \in {"syncTask", "pickup", "complete"}
    /\ TaskSynced => SyncedTask.status \in Statuses
    /\ ResolvedList(RequiredRole) = NoList
    /\ NeedsList )
  => /\ ~result.success
     /\ PlacingCalls = {}
     /\ \/ result.error = NoListConfigured(SyncedTask.status)
        \/ result.message = "Could not find Done list on board"

C15_StatusRoleMapping ==
  (TaskSynced /\ SyncedTask.status \in Statuses) =>
    /\ \A k \in PlacingCalls :
         calls[k].arg = envListIds[RoleOfStatus(SyncedTask.status)]
    /\ result.success =>
         cards[result.cardId].idList = envListIds[RoleOfStatus(SyncedTask.status)]
    /\ (\A r \in {"todo", "inProgress", "done"} : envListIds[r] # NoList) =>
         \A s \in Statuses :
           /\ {r \in Roles : envListIds[r] = getTargetListId(s)} = {RoleOfStatus(s)}
           /\ {u \in Statuses : getTargetListId(u) = getTargetListId(s)} = {s}

\* C15 witness: a completed task was synced and its card moved from
\* another list into the done list
C15_Witness ==
  /\ TaskSynced
  /\ SyncedTask.status = "completed"
  /\ result.success
  /\ result.message = "moved"
  /\ before.cards[result.cardId].idList # "done"
  /\ cards[result.cardId].idList = "done"

\* C16: an operation that targets a role puts the card in the list the
\* role resolves to, the configured list when one is set and the discovered
\* one otherwise, whenever there is such a list and no remote call fails.
C16_ListIdResolution ==
  ( /\ request.op \in {"syncTask", "pickup", "complete"}
    /\ TaskSynced => SyncedTask.status \in Statuses
    /\ ResolvedList(RequiredRole) # NoList
    /\ NeedsList )
  => /\ result.success
     /\ TaskSynced => cards[result.cardId].idList = ResolvedList(RequiredRole)
     /\ ~TaskSynced =>
          cards[IF request.op = "pickup" THEN session.currentCardId
                ELSE ActiveCard].idList = ResolvedList(RequiredRole)

----------------------------------------------------------------------------
(* Further properties of the orchestrator, checked under Spec *)

\* the positions in calls of the comments posted
CommentCalls == {k \in 1..Len(calls) : calls[k].op = "addComment"}

\* the comment 'C/T completed (N in progress)' of a batch, the parenthesis
\* left out when N = 0
SummaryComment(cardId, tasks) ==
  CallN("addComment", cardId, "Progress Update",
        IF CountStatus(tasks, "in_progress") > 0
          THEN <<CountStatus(tasks, "completed"), Len(tasks),
                 CountStatus(tasks, "in_progress")>>
          ELSE <<CountStatus(tasks, "completed"), Len(tasks)>>)

\* the description a sync of the batch writes on the card it found
WrittenDescription ==
  LET old == before.cards[ActiveCard].desc
      new == generateUpdatedDescription("auto", old, request.tasks)
  IN  IF new # <<>> THEN new ELSE old

C18_CommentFailureFails ==
  (SyncRan /\ FailedCalls({"addComment"}) # {}) =>
    /\ ~result.success
    /\ result.error = ErrMsg("addComment")
    /\ cards[ActiveCard].desc = WrittenDescription

\* C18 witness: the comment of a sync failed after the sync had changed the
\* description of the card
C18_Witness ==
  /\ SyncRan
  /\ FailedCalls({"addComment"}) # {}
  /\ cards[ActiveCard].desc # before.cards[ActiveCard].desc

\* C19: a sync, automatic or manual, issues no moveCard call and leaves
\* every card in the list it was in.
C19_SyncNeverMoves ==
  (request.op \in {"syncTasks", "syncTasksChecklists", "update"}) =>
    /\ \A k \in 1..Len(calls) : calls[k].op # "moveCard"
    /\ \A id \in CardIds : cards[id].idList = before.cards[id].idList

\* C19 witness: a sync of a batch whose tasks are all completed has
\* succeeded and rewritten the description of a card in the todo list
C19_Witness ==
  /\ SyncRan
  /\ result.success
  /\ Bound(before.session)
  /\ request.tasks # <<>>
  /\ CountStatus(request.tasks, "completed") = Len(request.tasks)
  /\ cards[ActiveCard].idList = "todo"
  /\ cards[ActiveCard].desc # before.cards[ActiveCard].desc

\* C20: a successful pickup leaves the session bound to the card and the
\* card in the inProgress list; when the card was in another list, it was
\* moved and the pickup comment posted.
C20_PickupMovesToInProgress ==
  (request.op = "pickup" /\ result.success) =>
    /\ Bound(session)
    /\ cards[session.currentCardId].idList = "inProgress"
    /\ before.cards[session.currentCardId].idList # "inProgress" =>
         /\ \E k \in 1..Len(calls) :
              calls[k] = Call("moveCard", session.currentCardId, "inProgress")
         /\ CommentCalls # {}


----------------------------------------------------------------------------
(* Properties of createCardFromPlan *)

CreateCalls == {k \in 1..Len(calls) : calls[k].op = "createCard"}

\* C21: a successful createCardFromPlan creates exactly one card, in the todo
\* list, and binds the session to that card with the tasks extracted from the
\* plan; when it fails the session is the one it started from.
C21_CreateBindsSession ==
  request.op = "create" =>
    IF result.success
      THEN \E k \in CreateCalls :
             LET id == calls[k].card
             IN  /\ CreateCalls = {k}
                 /\ {c \in CardIds : cards[c].exists /\ ~before.cards[c].exists}
                      = {id}
                 /\ cards[id].idList = "todo"
                 /\ session.currentCardId = id
                 /\ session.currentCardName = cards[id].name
                 /\ \E planText \in Plans :
                      /\ cards[id].desc = formatPlanAsDescription(planText)
                      /\ cards[id].name = extractTitleFromPlan(planText)
                      /\ session.linkedTasks = extractTasksFromPlan(planText)
      ELSE session = before.session

C21_Witness ==
  /\ request.op = "create"
  /\ result.success
  /\ Len(session.linkedTasks) = 2
  /\ before.session.currentCardId = NoCard

----------------------------------------------------------------------------
(* Failure containment of the caller-facing operations *)

CallerOps ==
  {"create", "pickup", "syncTasks", "syncTasksChecklists", "update",
   "complete", "status"}

\* the failures each operation catches below its own catch block: list
\* discovery, the lookup of the current list's name, the checklist step, the
\* labels, the lookup by id that falls back to the search, the health check
CaughtInside(op) ==
  {"getLists"} \cup
  CASE op \in {"syncTasksChecklists", "update"} ->
         {"getCardChecklists", "updateChecklistItem", "createChecklist"}
    [] op = "pickup" -> {"getCard"}
    [] op = "create" -> {"getBoard", "getBoardLabels", "createLabel", "addLabelToCard"}
    [] OTHER -> {}

----------------------------------------------------------------------------
(* Properties of the session file under concurrent writers, checked under *)
(* RaceSpec                                                               *)

LastWrite == writes[Len(writes)]

\* C23: when two invocations mutate the same session concurrently, the
\* persisted session is the whole record written by the later write, which is
\* what that writer made of the record it loaded; no field comes from
\* another writer's record.
C23_LaterWriteWins ==
  writes # <<>> =>
    /\ session = LastWrite.record
    /\ LET w == writers[LastWrite.by]
       IN  LastWrite.record =
             IF w.op.fn = "clearSession" THEN EmptySession
             ELSE mutated(w.op, w.loaded)

\* C23 witness: both invocations have written, the later writer had loaded
\* the file before the earlier one wrote it, and the file holds the later
\* writer's record although the two records differ in the card and the tasks
C23_Witness ==
  /\ Len(writes) = 2
  /\ writes[1].by # writes[2].by
  /\ writers[writes[2].by].op.fn # "clearSession"
  /\ writers[writes[2].by].seen = 0
  /\ writes[1].record.currentCardId # writes[2].record.currentCardId
  /\ writes[1].record.linkedTasks # writes[2].record.linkedTasks
  /\ writes[1].record.linkedTasks # <<>>
  /\ session = writes[2].record

----------------------------------------------------------------------------
(* Uniqueness of the tracked tasks, checked under ChecklistSpec, whose *)
(* batches repeat a content                                            *)

\* C24: the session's tracked tasks hold at most one task with any given
\* content, in every state the operations leave.
C24_OneTaskPerContent ==
  \A i, j \in 1..Len(session.linkedTasks) :
    session.linkedTasks[i].content = session.linkedTasks[j].content => i = j

----------------------------------------------------------------------------
(* Properties of TodoTrelloSync, checked under ListSpec *)

\* the card's name equals, contains or is contained in the content, whatever
\* the case of the letters
nameMatches(name, content) ==
  \/ toLowerCase(name) = toLowerCase(content)
  \/ includes(toLowerCase(name), toLowerCase(content))
  \/ includes(toLowerCase(content), toLowerCase(name))

\* C25: linkExistingCards binds a task to the card the search returned exactly
\* when the card's name matches the content; when no card matches or the
\* search fails the map is left as it was and no error is raised; a syncTask
\* of a bound task issues no createCard and acts on the bound card.
C25_LinkBindsOnMatch ==
  [][ /\ (Started /\ request'.op = "link") =>
          LET task == request'.tasks[1]
              id == calls'[1].card
              matches == /\ "searchCards" \notin request'.fail
                         /\ id # NoCard
                         /\ nameMatches(cards[id].name, task.content)
          IN  /\ result'.success /\ result'.error = NoError
              /\ sessionTaskCards' =
                   IF matches
                     THEN [sessionTaskCards EXCEPT ![task.content] = id]
                     ELSE sessionTaskCards
              /\ cards' = cards
      /\ (Started /\ request'.op = "syncTask"
             /\ sessionTaskCards[request'.tasks[1].content] # NoCard) =>
          {k \in 1..Len(calls') :
             \/ calls'[k].op = "createCard"
             \/ calls'[k].card # sessionTaskCards[request'.tasks[1].content]}
            = {}
    ]_vars

\* C25 witness: a task has been linked to a card whose name is not its
\* content but contains it in another case
C25_Witness ==
  /\ request.op = "link"
  /\ calls[1].card # NoCard
  /\ sessionTaskCards[request.tasks[1].content] = calls[1].card
  /\ cards[calls[1].card].name # request.tasks[1].content
  /\ toLowerCase(cards[calls[1].card].name) # toLowerCase(request.tasks[1].content)

\* the createCard calls of a step that created a card for the content: old
\* and new are the board before and after the step
CreatedFor(cl, old, new, content) ==
  {k \in 1..Len(cl) : /\ cl[k].op = "createCard"
                       /\ cl[k].card # NoCard
                       /\ ~old[cl[k].card].exists
                       /\ new[cl[k].card].exists
                       /\ new[cl[k].card].name = content}

\* C26: between two cleanups, once the map holds a card for a content, a
\* syncTask with that content moves that card, rewrites its description and
\* comments on it, and creates nothing; a syncTask of an unmapped content
\* records the card it created, and records nothing when the creation failed;
\* a batch creates at most one card per content, none for a mapped content.
C26_OneCardPerContent ==
  [][ /\ (Started /\ request'.op = "syncTask") =>
          LET task == request'.tasks[1]
              bound == sessionTaskCards[task.content]
          IN  IF bound # NoCard
                THEN /\ sessionTaskCards' = sessionTaskCards
                     /\ {k \in 1..Len(calls') : calls'[k].op = "createCard"} = {}
                     /\ result'.success =>
                          /\ [k \in 1..Len(calls') |-> calls'[k].op]
                               = <<"moveCard", "updateCard", "addComment">>
                          /\ {k \in 1..Len(calls') : calls'[k].card # bound} = {}
                          /\ result'.cardId = bound
                ELSE IF result'.success
                  THEN /\ [k \in 1..Len(calls') |-> calls'[k].op] = <<"createCard">>
                       /\ ~cards[result'.cardId].exists
                       /\ sessionTaskCards' =
                            [sessionTaskCards EXCEPT ![task.content] = result'.cardId]
                  ELSE /\ sessionTaskCards' = sessionTaskCards
                       /\ cards' = cards
      /\ (Started /\ request'.op = "todoSyncTasks") =>
          {c \in TodoContents :
             \/ Cardinality(CreatedFor(calls', cards, cards', c)) > 1
             \/ /\ sessionTaskCards[c] # NoCard
                /\ \/ sessionTaskCards'[c] # sessionTaskCards[c]
                   \/ CreatedFor(calls', cards, cards', c) # {}}
            = {}
    ]_vars

\* C26 witness: a task whose card an earlier syncTask created has been synced
\* again, and the same card was moved
C26_Witness ==
  /\ request.op = "syncTask"
  /\ result.success
  /\ result.message = "moved"
  /\ sessionTaskCards[request.tasks[1].content] = result.cardId
  /\ before.cards[result.cardId].name = request.tasks[1].content

\* the operations a task's sync would call: createCard for a content without
\* a card, the three of the update otherwise
OpsOfTask(bound) ==
  IF bound THEN {"moveCard", "updateCard", "addComment"} ELSE {"createCard"}

\* C27: TodoTrelloSync.syncTasks returns one result per task of the batch, in
\* the order of the batch: result k is success exactly when task k's status
\* has a list and none of the calls task k needs fails, whatever happened to
\* the tasks before it, and it carries the action task k's status asks for.
C27_OneResultPerTask ==
  request.op = "todoSyncTasks" =>
    /\ Len(result.results) = Len(request.tasks)
    /\ \A k \in 1..Len(request.tasks) :
         LET task == request.tasks[k]
             r == result.results[k]
             bound == \/ before.taskCards[task.content] # NoCard
                      \/ \E j \in 1..(k - 1) :
                           /\ request.tasks[j].content = task.content
                           /\ result.results[j].success
         IN  /\ r.success =
                  /\ getTargetListId(task.status) # NoList
                  /\ OpsOfTask(bound) \cap request.fail = {}
             /\ r.success => /\ r.cardId = sessionTaskCards[task.content]
                             /\ r.message \in {"created", "updated", "moved"}
                             /\ (r.message = "moved") =
                                  (bound /\ task.status = "completed")
             /\ ~r.success => r.error # NoError /\ r.message = "skipped"

\* C27 witness: the first task of a batch of two failed and the second
\* succeeded
C27_Witness ==
  /\ request.op = "todoSyncTasks"
  /\ Len(result.results) = 2
  /\ ~result.results[1].success
  /\ result.results[2].success

----------------------------------------------------------------------------
(* Position of the task block, checked under ReconSpec *)

BodyLines == split(rBody)

OutLines == split(rOut1)

TaskLineAt(i) == IsTaskLine(rImpl, trim(BodyLines[i]))

HasTaskLine == \E i \in 1..Len(BodyLines) : TaskLineAt(i)

\* first line of the first run of consecutive task lines
RunStart == CHOOSE i \in 1..Len(BodyLines) :
              TaskLineAt(i) /\ \A j \in 1..(i - 1) : ~TaskLineAt(j)

\* last line of that run
RunEnd == CHOOSE i \in RunStart..Len(BodyLines) :
            /\ \A j \in RunStart..i : TaskLineAt(j)
            /\ i < Len(BodyLines) => ~TaskLineAt(i + 1)

\* C28: when the body has a task block, the rendered task lines stand in the
\* output where the first run of task lines stood: right after the lines that
\* preceded the run, hence before every line that followed it, and at the end
\* of the document when the run ended the body.
C28_TasksWhereRunEnded ==
  (rPass >= 1 /\ rTasks # <<>> /\ HasTaskLine) =>
    /\ Len(OutLines) >= RunStart + Len(rTasks) - 1
    /\ SubSeq(OutLines, RunStart, RunStart + Len(rTasks) - 1)
         = RenderTasks(rImpl, rTasks)
    /\ RunEnd = Len(BodyLines) =>
         Len(OutLines) = RunStart + Len(rTasks) - 1

\* C29: a task-like line of the body outside the first run of task lines is
\* a line of the output, as it was.
C29_LaterTaskLinesKept ==
  (rPass >= 1 /\ HasTaskLine) =>
    \A i \in (RunEnd + 1)..Len(BodyLines) :
      TaskLineAt(i) => \E k \in 1..Len(OutLines) : OutLines[k] = BodyLines[i]

\* C30: when the body has no task line and the batch is not empty, the output
\* is the body followed by a blank line, the heading '## Current Tasks' and
\* one rendered line per task in the order of the batch.
C30_SectionAppended ==
  (rPass >= 1 /\ rTasks # <<>> /\ ~HasTaskLine) =>
    rOut1 = rBody \o <<LF, LF, "#", "#", SP, "Current Tasks", LF>>
                  \o join(RenderTasks(rImpl, rTasks))

\* C30 witness: a body of two text lines has been reconciled with two tasks
C30_Witness ==
  /\ rPass = 1
  /\ Len(rTasks) = 2
  /\ rBody = <<"a", LF, "#", "h">>
  /\ Len(OutLines) = 6

----------------------------------------------------------------------------
(* Rendering of a task line, checked under ReconSpec *)

\* the three status glyphs as the code units that spell them
StatusGlyphs == {<<"U2705">>, <<"U2699", "UFE0F">>, <<"UD83D", "UDCCB">>}

\* the content without the status glyph that leads it and the white space
\* after the glyph
WithoutGlyph(content) ==
  IF \E g \in StatusGlyphs : startsWith(content, g)
    THEN LET g == CHOOSE x \in StatusGlyphs : startsWith(content, x)
         IN  trimStart(SubSeq(content, Len(g) + 1, Len(content)))
    ELSE content

\* C31: each task is rendered as '- <glyph> <content>', the glyph that of its
\* status and the content without a status glyph that led it: the lines the
\* reconciler appends for a body without task lines are these lines.
C31_RenderedWithoutOldGlyph ==
  (rPass >= 1 /\ rTasks # <<>> /\ ~HasTaskLine) =>
    \A k \in 1..Len(rTasks) :
      OutLines[Len(OutLines) - Len(rTasks) + k] =
        <<"-", SP>> \o getStatusIcon(rTasks[k].status) \o <<SP>>
                    \o WithoutGlyph(rTasks[k].content)

----------------------------------------------------------------------------
(* Properties of the matcher, checked under MatchSpec *)

CleanContent == cleanTaskContent(mContent)

CleanName(k) == cleanTaskContent(mItems[k].name)

\* the candidates of each tier
ExactCandidates == {k \in 1..Len(mItems) : CleanName(k) = CleanContent}

ContainmentCandidates ==
  {k \in 1..Len(mItems) :
     includes(CleanName(k), CleanContent) \/ includes(CleanContent, CleanName(k))}

KeywordCandidates ==
  {k \in 1..Len(mItems) :
     \E w \in {x \in {splitOn(CleanContent, SP)[i] :
                          i \in 1..Len(splitOn(CleanContent, SP))} : Len(x) > 3} :
       includes(CleanName(k), w)}

\* the first item of a non-empty set of candidates
First(candidates) == CHOOSE k \in candidates : \A j \in candidates : k <= j

\* the only item of a set of one candidate
Only(candidates) == CHOOSE k \in candidates : TRUE

\* C32: the tiers exact, containment and keyword are tried in that order and
\* the first tier that yields exactly one candidate decides the match; a tier
\* with no candidate or with several does not decide.
C32_TierOfOneCandidateDecides ==
  mDone =>
    mMatch =
      IF Cardinality(ExactCandidates) = 1 THEN Only(ExactCandidates)
      ELSE IF Cardinality(ContainmentCandidates) = 1
        THEN Only(ContainmentCandidates)
      ELSE IF Cardinality(KeywordCandidates) = 1 THEN Only(KeywordCandidates)
      ELSE 0

\* C32 (amended): the tiers are tried in that order and the first tier that
\* has a candidate decides: the match is that tier's first candidate in the
\* order of the checklist, also when the tier has several; an item found by
\* a later tier never overrides it.
C32_FirstTierWithCandidateDecides ==
  mDone =>
    mMatch =
      IF ExactCandidates # {} THEN First(ExactCandidates)
      ELSE IF ContainmentCandidates # {} THEN First(ContainmentCandidates)
      ELSE IF KeywordCandidates # {} THEN First(KeywordCandidates)
      ELSE 0

\* C32 witness: the item that equals the content was matched although items
\* before it in the checklist are candidates of the later tiers
C32_Witness ==
  /\ mDone
  /\ mMatch = 3
  /\ ExactCandidates = {3}
  /\ 1 \in ContainmentCandidates
  /\ 2 \in KeywordCandidates \ ContainmentCandidates

----------------------------------------------------------------------------
(* Frame of checklist reconciliation, checked under ChecklistSpec *)

OldChecklists == before.cards[ActiveCard].checklists

NewChecklists == cards[ActiveCard].checklists

\* the matcher of the operation that ran
ImplRan == IF request.op = "update" THEN "slash" ELSE "auto"

\* the item name is a candidate for the content in some tier of the matcher
IsCandidate(impl, name, content) ==
  IF impl = "auto"
    THEN LET n == cleanTaskContent(name)
             c == cleanTaskContent(content)
             kws == {w \in {splitOn(c, SP)[i] : i \in 1..Len(splitOn(c, SP))} :
                       Len(w) > 3}
         IN  \/ n = c
             \/ includes(n, c) \/ includes(c, n)
             \/ \E w \in kws : includes(n, w)
    ELSE includes(name, content) \/ includes(content, name)

MatchedBySomeTask(name) ==
  \E k \in 1..Len(request.tasks) :
    IsCandidate(ImplRan, name, request.tasks[k].content)

\* C33: on a card that has checklists, reconciliation changes nothing but
\* the completion state of items some task matches: the checklists, their
\* names, their items and the items' names and order are as before, every
\* checklist call after the read is an updateChecklistItem of a matched
\* item, and the sync succeeds whether or not every task matched an item.
C33_OnlyMatchedItemsUpdated ==
  (ChecklistSyncRan /\ Bound(before.session) /\ OldChecklists # <<>>) =>
    /\ Len(NewChecklists) = Len(OldChecklists)
    /\ \A ci \in 1..Len(OldChecklists) :
         /\ NewChecklists[ci].name = OldChecklists[ci].name
         /\ Len(NewChecklists[ci].checkItems) = Len(OldChecklists[ci].checkItems)
         /\ \A ii \in 1..Len(OldChecklists[ci].checkItems) :
              /\ NewChecklists[ci].checkItems[ii].name
                   = OldChecklists[ci].checkItems[ii].name
              /\ NewChecklists[ci].checkItems[ii].state
                     # OldChecklists[ci].checkItems[ii].state
                   => MatchedBySomeTask(OldChecklists[ci].checkItems[ii].name)
    /\ {k \in 1..Len(calls) : calls[k].op = "createChecklist"} = {}
    /\ \A k \in UpdateCalls :
         MatchedBySomeTask(
           OldChecklists[calls[k].nums[1]].checkItems[calls[k].nums[2]].name)
    /\ FailedCalls(RemoteOps \ ChecklistOps) = {} => result.success

\* C33 witness: /trello-update ran with a task that matches no item and a
\* task that matches one; the matched item changed state, the sync succeeded
C33_Witness ==
  /\ request.op = "update"
  /\ OldChecklists # <<>>
  /\ \E k \in 1..Len(request.tasks) :
       \A ci \in 1..Len(OldChecklists) :
         \A ii \in 1..Len(OldChecklists[ci].checkItems) :
           ~IsCandidate("slash", OldChecklists[ci].checkItems[ii].name,
                        request.tasks[k].content)
  /\ NewChecklists # OldChecklists
  /\ result.success

\* the createChecklist calls of the operation
CreateChecklistCalls == {k \in 1..Len(calls) : calls[k].op = "createChecklist"}

\* the checklist step ran against a card without checklists
NoChecklistsFound ==
  /\ ChecklistSyncRan
  /\ Bound(before.session)
  /\ OldChecklists = <<>>
  /\ \E k \in 1..Len(calls) : calls[k].op = "getCardChecklists"
  /\ FailedCalls({"getCardChecklists", "createChecklist"}) = {}

\* C34: when a sync runs against a card that has no checklist and the tasks
\* are not empty, exactly one checklist is created, with one item per task
\* named after the task's content, in the order of the tasks; with no task
\* no checklist is created.
C34_ChecklistSeeded ==
  NoChecklistsFound =>
    IF request.tasks # <<>>
      THEN /\ Cardinality(CreateChecklistCalls) = 1
           /\ Len(NewChecklists) = 1
           /\ [k \in 1..Len(NewChecklists[1].checkItems) |->
                 NewChecklists[1].checkItems[k].name]
                = [k \in 1..Len(request.tasks) |-> request.tasks[k].content]
      ELSE CreateChecklistCalls = {} /\ NewChecklists = <<>>

\* C34 (amended): /trello-update does so; the automatic sync of the
\* checklist-aware service never creates a checklist: against a card without
\* checklists it leaves the card without checklists.
C34_ChecklistSeededByUpdate ==
  NoChecklistsFound =>
    IF request.op = "update" /\ request.tasks # <<>>
      THEN /\ Cardinality(CreateChecklistCalls) = 1
           /\ Len(NewChecklists) = 1
           /\ [k \in 1..Len(NewChecklists[1].checkItems) |->
                 NewChecklists[1].checkItems[k].name]
                = [k \in 1..Len(request.tasks) |-> request.tasks[k].content]
      ELSE CreateChecklistCalls = {} /\ NewChecklists = <<>>

\* C34 witness: /trello-update has given a card without checklists one
\* checklist of two items
C34_Witness ==
  /\ request.op = "update"
  /\ OldChecklists = <<>>
  /\ Len(request.tasks) = 2
  /\ Len(NewChecklists) = 1
  /\ Len(NewChecklists[1].checkItems) = 2

----------------------------------------------------------------------------
(* Failures of completeCard and pickupCard, checked under Spec *)

MoveOrCommentCalls ==
  {k \in 1..Len(calls) : calls[k].op \in {"moveCard", "addComment"}}

\* C35: when complete returns a failure the session is exactly as it was;
\* when the failure is that there is no active card or that the board has no
\* done list, no card was moved and no comment posted; when the move call
\* failed, the board is as it was as well.
C35_FailedCompleteKeepsSession ==
  (request.op = "complete" /\ ~result.success) =>
    /\ session = before.session
    /\ result.message \in {"No active Trello card in session",
                            "Could not find Done list on board"}
         => (MoveOrCommentCalls = {} /\ cards = before.cards)
    /\ FailedCalls({"moveCard"}) # {} => cards = before.cards

\* C35 witness: complete has failed on a bound session because the board
\* has no done list
C35_Witness ==
  /\ request.op = "complete"
  /\ Bound(before.session)
  /\ before.session.linkedTasks # <<>>
  /\ result.message = "Could not find Done list on board"
  /\ session = before.session

\* C37: whenever complete has moved the active card to the done list, the
\* session is cleared when complete returns, also when the completion
\* comment failed.
C37_MovedImpliesCleared ==
  ( /\ request.op = "complete"
    /\ Bound(before.session)
    /\ \E k \in 1..Len(calls) :
         calls[k].op = "moveCard" /\ k \notin FailedCalls({"moveCard"}) )
  => ~Bound(session)

\* the searches of a pickup by name (no getCard came first) that returned
\* no card or more than one
AmbiguousSearches ==
  {k \in 1..Len(calls) :
     /\ calls[k].op = "searchCards" /\ Len(calls[k].nums) = 1
     /\ calls[k].nums[1] # 1
     /\ {j \in 1..Len(calls) : calls[j].op = "getCard"} = {}}

\* C36: a pickup by name whose search returns no card or more than one card
\* returns a message, leaves the session and every card as they were, and
\* neither moves a card nor comments on one
C36_AmbiguousPickupChangesNothing ==
  (request.op = "pickup" /\ AmbiguousSearches # {}) =>
    /\ ~result.success
    /\ result.message \in {"No card found matching", "Multiple cards found"}
    /\ session = before.session
    /\ cards = before.cards
    /\ MoveOrCommentCalls = {}

C36_Witness ==
  /\ request.op = "pickup" /\ AmbiguousSearches # {}
  /\ \E k \in AmbiguousSearches : calls[k].nums[1] > 1
  /\ result.message = "Multiple cards found"
  /\ ~Bound(before.session)
  /\ session = before.session

----------------------------------------------------------------------------
(* A sync racing with the clear of completeCard, checked under RaceSpec *)

\* the writes of clearSession after which only updateSessionTasks has written
ClearsThenSyncs ==
  {k \in 1..Len(writes) :
     /\ writers[writes[k].by].op.fn = "clearSession"
     /\ \A j \in (k + 1)..Len(writes) :
          writers[writes[j].by].op.fn = "updateSessionTasks"}

\* C38 as stated: once clearSession has written, the session has no active
\* card as long as only syncs write after it, whatever the interleaving of
\* the sync's read, its write and the clear
C38_ClearedStaysCleared ==
  ClearsThenSyncs # {} => ~Bound(session)

\* C38 as the code has it: updateSessionTasks writes nothing when the record
\* it loaded has no card, so a sync that reads after the clear leaves the
\* session cleared; the session has an active card after the clear only when
\* a sync that had loaded the file before the clear wrote its record after it
C38_RebindOnlyByStaleRead ==
  /\ \A j \in 1..Len(writes) :
       writers[writes[j].by].op.fn = "updateSessionTasks"
         => Bound(writers[writes[j].by].loaded)
  /\ \A k \in ClearsThenSyncs :
       Bound(session) =>
         \E j \in (k + 1)..Len(writes) :
            /\ writers[writes[j].by].seen < k
            /\ session = writes[j].record

\* C38 witness: the clear wrote first, the sync that had read the bound
\* session before it wrote second, and the session has its card again
C38_Witness ==
  /\ Len(writes) = 2
  /\ writers[writes[1].by].op.fn = "clearSession"
  /\ writers[writes[2].by].op.fn = "updateSessionTasks"
  /\ writers[writes[2].by].seen = 0
  /\ Bound(session)

----------------------------------------------------------------------------
(* The description a successful sync leaves on the card, checked under Spec *)

\* the reconciler's output for the body the sync fetched and its batch
ReconciledDescription ==
  generateUpdatedDescription("auto", before.cards[ActiveCard].desc, request.tasks)

\* C39: after a sync that returns success on a bound session, the remote
\* description of the card equals the reconciler's output for the fetched
\* body and the batch, the empty output included
C39_DescriptionIsReconcilerOutput ==
  (request.op = "syncTasks" /\ result.success /\ Bound(before.session)) =>
    cards[ActiveCard].desc = ReconciledDescription

----------------------------------------------------------------------------
(* The SyncResult of TodoTrelloSync.syncTask, checked under ListSpec *)

\* the contents the call gave a card in the map
MappingsAdded ==
  {c \in TodoContents : sessionTaskCards[c] = NoCard /\ sessionTaskCards'[c] # NoCard}

\* C40: every result of syncTask has success false exactly when its action
\* is 'skipped', has the action 'created' exactly when the call added a
\* mapping from a task content to a card, and has the action 'moved' only
\* for a completed task whose content was mapped to a card before the call
C40_ResultMatchesAction ==
  [][ (Started /\ request'.op = "syncTask") =>
        LET task == request'.tasks[1]
            action == result'.message
        IN  /\ action \in {"created", "updated", "moved", "skipped"}
            /\ ~result'.success <=> action = "skipped"
            /\ action = "created" <=> MappingsAdded # {}
            /\ action = "created" =>
                  /\ MappingsAdded = {task.content}
                  /\ sessionTaskCards'[task.content] = result'.cardId
            /\ action = "moved" =>
                  /\ task.status = "completed"
                  /\ sessionTaskCards[task.content] # NoCard
            /\ action # "created" => sessionTaskCards' = sessionTaskCards
    ]_vars

\* C40 witness: a syncTask of a completed task whose content the map held
\* has returned 'moved' with the card of the map
C40_Witness ==
  /\ request.op = "syncTask"
  /\ result.success
  /\ result.message = "moved"
  /\ request.tasks[1].status = "completed"
  /\ sessionTaskCards[request.tasks[1].content] = result.cardId

=============================================================================
